---- MODULE Spec2Model ----
(***************************************************************************)
(* The client-import pipeline of the CRM: importClients (CSV),             *)
(* importClientsBatch (JSON), the row validator, the payment-attachment    *)
(* worker pool and the payment-method methods of the Client model.         *)
(*                                                                         *)
(* Text is a sequence of one-character strings, so that trimming, case     *)
(* folding, header normalisation and digit extraction are computed as the  *)
(* code computes them.  A missing (undefined) value is the empty text for  *)
(* a text field; a document is a function from field names to values and   *)
(* a field the code leaves out is simply not in its domain.                *)
(***************************************************************************)
EXTENDS Integers, Sequences, FiniteSets, TLC

(***************************************************************************)
(* Text helpers (String.prototype methods used by the source).             *)
(***************************************************************************)
UpperLetters ==
  <<"A","B","C","D","E","F","G","H","I","J","K","L","M",
    "N","O","P","Q","R","S","T","U","V","W","X","Y","Z">>

LowerLetters ==
  <<"a","b","c","d","e","f","g","h","i","j","k","l","m",
    "n","o","p","q","r","s","t","u","v","w","x","y","z">>

DigitChars == <<"0","1","2","3","4","5","6","7","8","9">>

Range(f) == {f[i] : i \in DOMAIN f}

IndexIn(c, seq) ==
  IF \E i \in DOMAIN seq : seq[i] = c
  THEN CHOOSE i \in DOMAIN seq : seq[i] = c
  ELSE 0

IsDigit(c) == c \in Range(DigitChars)

IsLetter(c) == c \in Range(UpperLetters) \cup Range(LowerLetters)

\* \w of a JavaScript regular expression
IsWordChar(c) == IsLetter(c) \/ IsDigit(c) \/ c = "_"

\* \s, over the characters the rows of the model use
IsSpace(c) == c = " "

DigitVal(c) == IndexIn(c, DigitChars) - 1

toLowerCaseChar(c) ==
  LET i == IndexIn(c, UpperLetters) IN IF i = 0 THEN c ELSE LowerLetters[i]

toLowerCase(t) == [i \in DOMAIN t |-> toLowerCaseChar(t[i])]

RECURSIVE trimStart(_)
trimStart(t) ==
  IF t # <<>> /\ IsSpace(Head(t)) THEN trimStart(Tail(t)) ELSE t

RECURSIVE trimEnd(_)
trimEnd(t) ==
  IF t # <<>> /\ IsSpace(t[Len(t)]) THEN trimEnd(SubSeq(t, 1, Len(t) - 1)) ELSE t

trim(t) == trimEnd(trimStart(t))

\* t.replace(/\D+/g, '')
digitsOnly(t) == SelectSeq(t, IsDigit)

\* t.slice(-n)
sliceLast(t, n) == IF Len(t) <= n THEN t ELSE SubSeq(t, Len(t) - n + 1, Len(t))

\* t.slice(0, n)
sliceFirst(t, n) == IF Len(t) <= n THEN t ELSE SubSeq(t, 1, n)

\* parseInt(t, 10) of a text of digits
RECURSIVE parseDigits(_)
parseDigits(t) ==
  IF t = <<>> THEN 0 ELSE 10 * parseDigits(SubSeq(t, 1, Len(t) - 1)) + DigitVal(t[Len(t)])

AllDigits(t) == \A i \in DOMAIN t : IsDigit(t[i])

\* a.concat(b) of two texts joined with one separator
JoinWith(a, sep, b) == a \o <<sep>> \o b

(***************************************************************************)
(* importClients: header normalisation and the column map.                 *)
(***************************************************************************)
\* .replace(/_/g, ' ')
underscoresToSpaces(t) == [i \in DOMAIN t |-> IF t[i] = "_" THEN " " ELSE t[i]]

\* .replace(/\s+/g, ' ')
RECURSIVE collapseSpaces(_)
collapseSpaces(t) ==
  IF Len(t) < 2 THEN t
  ELSE IF IsSpace(t[1]) /\ IsSpace(t[2]) THEN collapseSpaces(Tail(t))
  ELSE <<IF IsSpace(t[1]) THEN " " ELSE t[1]>> \o collapseSpaces(Tail(t))

normalizeHeader(h) == collapseSpaces(toLowerCase(trim(underscoresToSpaces(h))))

\* header.replace(/[^a-zA-Z]/g, '').toLowerCase()
headerKeyOf(h) == toLowerCase(SelectSeq(h, IsLetter))

columnMap ==
  << <<<<"C", "l", "i", "e", "n", "t", "_", "i", "d">>, "_id">>,
     <<<<"C", "l", "i", "e", "n", "t", "I", "d">>, "_id">>,
     <<<<"N", "a", "m", "e">>, "name">>,
     <<<<"D", "e", "s", "c", "r", "i", "p", "t", "i", "o", "n">>, "description">>,
     <<<<"O", "w", "n", "e", "d", " ", "B", "y">>, "ownedBy">>,
     <<<<"O", "w", "n", "e", "r">>, "owner">>,
     <<<<"O", "w", "n", "e", "d", "B", "y">>, "ownedBy">>,
     <<<<"C", "o", "n", "t", "a", "c", "t", " ", "S", "t", "a", "t", "u", "s">>, "contactStatus">>,
     <<<<"C", "o", "n", "t", "a", "c", "t", "S", "t", "a", "t", "u", "s">>, "contactStatus">>,
     <<<<"C", "o", "n", "t", "a", "c", "t", " ", "T", "y", "p", "e">>, "contactType">>,
     <<<<"C", "o", "n", "t", "a", "c", "t", "T", "y", "p", "e">>, "contactType">>,
     <<<<"C", "o", "m", "p", "a", "n", "y", " ", "T", "y", "p", "e">>, "companyType">>,
     <<<<"C", "o", "m", "p", "a", "n", "y", "T", "y", "p", "e">>, "companyType">>,
     <<<<"P", "h", "o", "n", "e">>, "phone">>,
     <<<<"E", "m", "a", "i", "l">>, "email">>,
     <<<<"A", "d", "d", "r", "e", "s", "s">>, "address">>,
     <<<<"C", "i", "t", "y">>, "city">>,
     <<<<"S", "t", "a", "t", "e">>, "state">>,
     <<<<"P", "o", "s", "t", "a", "l", " ", "C", "o", "d", "e">>, "postalCode">>,
     <<<<"P", "o", "s", "t", "a", "l", "C", "o", "d", "e">>, "postalCode">>,
     <<<<"W", "e", "b", "s", "i", "t", "e">>, "website">>,
     <<<<"F", "a", "c", "e", "b", "o", "o", "k", " ", "P", "a", "g", "e">>, "facebookPage">>,
     <<<<"F", "a", "c", "e", "b", "o", "o", "k", "P", "a", "g", "e">>, "facebookPage">>,
     <<<<"I", "n", "d", "u", "s", "t", "r", "y">>, "industry">>,
     <<<<"F", "o", "r", "e", "c", "a", "s", "t", "e", "d", " ", "A", "m", "o", "u", "n", "t">>, "forecastedAmount">>,
     <<<<"F", "o", "r", "e", "c", "a", "s", "t", "e", "d", " ", "A", "m", "o", "u", "n", "t", " ">>, "forecastedAmount">>,
     <<<<"F", "o", "r", "e", "c", "a", "s", "t", "e", "d", "A", "m", "o", "u", "n", "t">>, "forecastedAmount">>,
     <<<<"I", "n", "t", "e", "r", "a", "c", "t", "i", "o", "n", " ", "C", "o", "u", "n", "t">>, "interactionCount">>,
     <<<<"I", "n", "t", "e", "r", "a", "c", "t", "i", "o", "n", "C", "o", "u", "n", "t">>, "interactionCount">>,
     <<<<"C", "r", "e", "a", "t", "e", "d", " ", "A", "t">>, "createdAt">>,
     <<<<"C", "r", "e", "a", "t", "e", "d", "A", "t">>, "createdAt">>,
     <<<<"P", "r", "o", "f", "i", "l", "e", " ", "I", "m", "a", "g", "e">>, "profileImage">>,
     <<<<"P", "r", "o", "f", "i", "l", "e", "I", "m", "a", "g", "e">>, "profileImage">>,
     <<<<"L", "a", "s", "t", " ", "N", "o", "t", "e">>, "lastNote">>,
     <<<<"L", "a", "s", "t", "N", "o", "t", "e">>, "lastNote">>,
     <<<<"P", "r", "o", "j", "e", "c", "t", "e", "d", " ", "C", "l", "o", "s", "e", " ", "D", "a", "t", "e">>, "projectedCloseDate">>,
     <<<<"F", "u", "l", "l", " ", "N", "a", "m", "e">>, "fullName">>,
     <<<<"F", "u", "l", "l", "N", "a", "m", "e">>, "fullName">>,
     <<<<"F", "o", "l", "d", "e", "r", "L", "i", "n", "k">>, "folderLink">>,
     <<<<"D", "e", "f", "a", "u", "l", "t", " ", "S", "h", "i", "p", "p", "i", "n", "g", " ", "T", "e", "r", "m", "s">>, "defaultShippingTerms">>,
     <<<<"D", "e", "f", "a", "u", "l", "t", "S", "h", "i", "p", "p", "i", "n", "g", "T", "e", "r", "m", "s">>, "defaultShippingTerms">>,
     <<<<"D", "e", "f", "a", "u", "l", "t", " ", "P", "a", "y", "m", "e", "n", "t", " ", "M", "e", "t", "h", "o", "d">>, "defaultPaymentMethod">>,
     <<<<"D", "e", "f", "a", "u", "l", "t", "P", "a", "y", "m", "e", "n", "t", "M", "e", "t", "h", "o", "d">>, "defaultPaymentMethod">>,
     <<<<"N", "a", "m", "e", "C", "C">>, "nameCC">>,
     <<<<"C", "C", "N", "u", "m", "b", "e", "r">>, "ccNumberText">>,
     <<<<"E", "x", "p", "i", "r", "a", "t", "i", "o", "n", "D", "a", "t", "e">>, "expirationDateText">>,
     <<<<"S", "e", "c", "u", "r", "i", "t", "y", "C", "o", "d", "e">>, "securityCodeText">>,
     <<<<"Z", "i", "p", "C", "o", "d", "e">>, "zipCodeText">> >>
\* sensitiveFields and the normalised spellings tested next to it
sensitiveFields ==
  { <<"N", "a", "m", "e", " ", "o", "n", " ", "C", "a", "r", "d">>,
    <<"C", "C", " ", "N", "u", "m", "b", "e", "r">>,
    <<"E", "x", "p", "i", "r", "a", "t", "i", "o", "n", " ", "D", "a", "t", "e">>,
    <<"S", "e", "c", "u", "r", "i", "t", "y", " ", "C", "o", "d", "e">>,
    <<"Z", "i", "p", " ", "C", "o", "d", "e">> }

sensitiveNormalized ==
  { <<"n", "a", "m", "e", " ", "o", "n", " ", "c", "a", "r", "d">>,
    <<"c", "c", " ", "n", "u", "m", "b", "e", "r">>,
    <<"e", "x", "p", "i", "r", "a", "t", "i", "o", "n", " ", "d", "a", "t", "e">>,
    <<"s", "e", "c", "u", "r", "i", "t", "y", " ", "c", "o", "d", "e">>,
    <<"z", "i", "p", " ", "c", "o", "d", "e">> }

t_name_on_card == <<"n", "a", "m", "e", " ", "o", "n", " ", "c", "a", "r", "d">>

t_cc_number == <<"c", "c", " ", "n", "u", "m", "b", "e", "r">>

t_expiration_date == <<"e", "x", "p", "i", "r", "a", "t", "i", "o", "n", " ", "d", "a", "t", "e">>

t_security_code == <<"s", "e", "c", "u", "r", "i", "t", "y", " ", "c", "o", "d", "e">>

t_zip_code == <<"z", "i", "p", " ", "c", "o", "d", "e">>

t_namecc == <<"n", "a", "m", "e", "c", "c">>

t_ccnumber == <<"c", "c", "n", "u", "m", "b", "e", "r">>

t_expirationdate == <<"e", "x", "p", "i", "r", "a", "t", "i", "o", "n", "d", "a", "t", "e">>

t_securitycode == <<"s", "e", "c", "u", "r", "i", "t", "y", "c", "o", "d", "e">>

t_zipcode == <<"z", "i", "p", "c", "o", "d", "e">>

t_Client_id == <<"C", "l", "i", "e", "n", "t", "_", "i", "d">>

t_Unnamed_Client == <<"U", "n", "n", "a", "m", "e", "d", " ", "C", "l", "i", "e", "n", "t">>

t_Unnamed_Client_ == <<"U", "n", "n", "a", "m", "e", "d", " ", "C", "l", "i", "e", "n", "t", " ">>

validStatuses ==
  << <<"S", "a", "m", "p", "l", "i", "n", "g">>,
     <<"N", "e", "w", " ", "P", "r", "o", "s", "p", "e", "c", "t">>,
     <<"U", "n", "c", "a", "t", "e", "g", "o", "r", "i", "z", "e", "d">>,
     <<"C", "l", "o", "s", "e", "d", " ", "l", "o", "s", "t">>,
     <<"I", "n", "i", "t", "i", "a", "l", " ", "C", "o", "n", "t", "a", "c", "t">>,
     <<"C", "l", "o", "s", "e", "d", " ", "w", "o", "n">>,
     <<"C", "o", "m", "m", "i", "t", "t", "e", "d">>,
     <<"C", "o", "n", "s", "i", "d", "e", "r", "a", "t", "i", "o", "n">> >>

t_Uncategorized == <<"U", "n", "c", "a", "t", "e", "g", "o", "r", "i", "z", "e", "d">>

t_New_Prospect == <<"N", "e", "w", " ", "P", "r", "o", "s", "p", "e", "c", "t">>

FieldSpellings ==
  << <<<<"_", "i", "d">>, "_id">>,
     <<<<"e", "x", "t", "e", "r", "n", "a", "l", "I", "d">>, "externalId">>,
     <<<<"n", "a", "m", "e">>, "name">>,
     <<<<"e", "m", "a", "i", "l">>, "email">>,
     <<<<"c", "o", "n", "t", "a", "c", "t", "S", "t", "a", "t", "u", "s">>, "contactStatus">>,
     <<<<"c", "r", "e", "a", "t", "e", "d", "A", "t">>, "createdAt">>,
     <<<<"c", "r", "e", "a", "t", "e", "d", "A", "t", "T", "e", "x", "t">>, "createdAtText">>,
     <<<<"f", "u", "l", "l", "N", "a", "m", "e">>, "fullName">>,
     <<<<"n", "a", "m", "e", "C", "C">>, "nameCC">>,
     <<<<"c", "c", "N", "u", "m", "b", "e", "r", "T", "e", "x", "t">>, "ccNumberText">>,
     <<<<"e", "x", "p", "i", "r", "a", "t", "i", "o", "n", "D", "a", "t", "e", "T", "e", "x", "t">>, "expirationDateText">>,
     <<<<"s", "e", "c", "u", "r", "i", "t", "y", "C", "o", "d", "e", "T", "e", "x", "t">>, "securityCodeText">>,
     <<<<"z", "i", "p", "C", "o", "d", "e", "T", "e", "x", "t">>, "zipCodeText">> >>

\* normalizeHeader('Client_id')
t_client_id == normalizeHeader(t_Client_id)

\* normalizedMap: the keys of columnMap, normalised
normalizedMap == [i \in DOMAIN columnMap |-> normalizeHeader(columnMap[i][1])]

\* normalizedMap.get(n): the target of the last entry of columnMap whose
\* normalised key is n ("" when the map has no such key)
normalizedMapGet(n) ==
  IF \A i \in DOMAIN normalizedMap : normalizedMap[i] # n THEN ""
  ELSE columnMap[CHOOSE i \in DOMAIN normalizedMap :
                   /\ normalizedMap[i] = n
                   /\ \A j \in DOMAIN normalizedMap : normalizedMap[j] = n => j <= i][2]

\* mapped[header] for a header that is in no map: the header itself is the key,
\* which names a field only when it spells that field exactly
FieldNamed(h) ==
  LET hits == {i \in DOMAIN FieldSpellings : FieldSpellings[i][1] = h}
  IN IF hits = {} THEN "" ELSE FieldSpellings[CHOOSE i \in hits : TRUE][2]

SetField(f, k, v) == [x \in DOMAIN f \cup {k} |-> IF x = k THEN v ELSE f[x]]

Get(f, k) == IF k \in DOMAIN f THEN f[k] ELSE <<>>

Has(f, k) == k \in DOMAIN f /\ f[k] # <<>>

Without(f, ks) == [x \in DOMAIN f \ ks |-> f[x]]

Merge(f, g) == [x \in DOMAIN f \cup DOMAIN g |-> IF x \in DOMAIN g THEN g[x] ELSE f[x]]

EmptyDoc == [x \in {} |-> <<>>]

\* the defaults of `mapped`, over the fields the model follows
mappedDefaults ==
  [x \in {"_id", "externalId", "name", "contactStatus", "email", "createdAtText",
          "fullName", "nameCC", "ccNumberText", "expirationDateText",
          "securityCodeText", "zipCodeText"} |-> <<>>]

paymentRawDefaults ==
  [ccNumber |-> <<>>, ccExp |-> <<>>, ccCvv |-> <<>>, nameOnCard |-> <<>>, billingZip |-> <<>>]

CompactTextTargets ==
  {"nameCC", "ccNumberText", "expirationDateText", "securityCodeText", "zipCodeText"}

\* one iteration of the loop over Object.entries(data)
mapCell(acc, cell) ==
  LET header == trim(cell[1])
      nHeader == normalizeHeader(header)
      rawVal == cell[2]
      valueStr == trim(rawVal)
      headerKey == headerKeyOf(header)
      isSensitive == header \in sensitiveFields \/ nHeader \in sensitiveNormalized
      pr == acc.paymentRaw
      mapped == acc.data
      target == IF normalizedMapGet(nHeader) # "" THEN normalizedMapGet(nHeader)
                ELSE FieldNamed(header)
      value == IF target \in CompactTextTargets THEN valueStr ELSE rawVal
      withText == IF target = "createdAt" THEN SetField(mapped, "createdAtText", valueStr)
                  ELSE mapped
  IN IF isSensitive
     THEN [acc EXCEPT !.paymentRaw =
             IF nHeader = t_name_on_card \/ headerKey = t_namecc
               THEN [pr EXCEPT !.nameOnCard = valueStr]
             ELSE IF nHeader = t_cc_number \/ headerKey = t_ccnumber
               THEN [pr EXCEPT !.ccNumber = valueStr]
             ELSE IF nHeader = t_expiration_date \/ headerKey = t_expirationdate
               THEN [pr EXCEPT !.ccExp = valueStr]
             ELSE IF nHeader = t_security_code \/ headerKey = t_securitycode
               THEN [pr EXCEPT !.ccCvv = valueStr]
             ELSE IF nHeader = t_zip_code \/ headerKey = t_zipcode
               THEN [pr EXCEPT !.billingZip = valueStr]
             ELSE pr]
     ELSE IF nHeader = t_client_id
     THEN IF trim(value) # <<>>
          THEN [acc EXCEPT !.data =
                  SetField(SetField(withText, "_id", trim(value)), "externalId", trim(value))]
          ELSE [acc EXCEPT !.data = withText]
     ELSE IF target = ""
     THEN acc
     ELSE [acc EXCEPT !.data = SetField(withText, target, value)]

RECURSIVE mapCells(_, _)
mapCells(cells, acc) ==
  IF cells = <<>> THEN acc ELSE mapCells(Tail(cells), mapCell(acc, Head(cells)))

\* parsedData.map(...): one CSV row to { rowNumber, data: mapped } and __paymentRaw
mapRow(row, rowNumber) ==
  LET acc == mapCells(row, [data |-> mappedDefaults, paymentRaw |-> paymentRawDefaults])
      pr == acc.paymentRaw
  IN [rowNumber |-> rowNumber,
      data |-> acc.data,
      hasPaymentRaw |-> \E k \in DOMAIN pr : trim(pr[k]) # <<>>,
      paymentRaw |-> pr]

(***************************************************************************)
(* The row validator.                                                      *)
(***************************************************************************)
\* \w+([.-]?\w+)*
IsWordRun(t) ==
  /\ t # <<>>
  /\ IsWordChar(t[1]) /\ IsWordChar(t[Len(t)])
  /\ \A i \in DOMAIN t : IsWordChar(t[i]) \/ t[i] \in {".", "-"}
  /\ \A i \in 1..(Len(t) - 1) : ~(t[i] \in {".", "-"} /\ t[i + 1] \in {".", "-"})

\* (\.\w{2,3})+
RECURSIVE IsTldRun(_)
IsTldRun(t) ==
  \E n \in {2, 3} :
    /\ Len(t) >= n + 1
    /\ t[1] = "."
    /\ \A i \in 2..(n + 1) : IsWordChar(t[i])
    /\ (Len(t) = n + 1 \/ IsTldRun(SubSeq(t, n + 2, Len(t))))

\* /^\w+([.-]?\w+)*@\w+([.-]?\w+)*(\.\w{2,3})+$/
isValidEmail(e) ==
  \E at \in DOMAIN e :
    /\ e[at] = "@"
    /\ IsWordRun(SubSeq(e, 1, at - 1))
    /\ \E cut \in (at + 1)..(Len(e) - 1) :
         /\ IsWordRun(SubSeq(e, at + 1, cut))
         /\ IsTldRun(SubSeq(e, cut + 1, Len(e)))

\* the remainders of t after an optional leading character of cs
dropOptional(t, cs) == IF t # <<>> /\ t[1] \in cs THEN {t, Tail(t)} ELSE {t}

\* the remainder of t after exactly n digits, if it starts with them
takeDigits(t, n) ==
  IF Len(t) >= n /\ AllDigits(SubSeq(t, 1, n)) THEN {SubSeq(t, n + 1, Len(t))} ELSE {}

\* /^[\+]?[(]?[0-9]{3}[)]?[-\s\.]?[0-9]{3}[-\s\.]?[0-9]{4,6}$/
isValidPhone(phone) ==
  \/ phone = <<>>
  \/ \E a \in dropOptional(phone, {"+"}) : \E b \in dropOptional(a, {"("}) :
       \E c \in takeDigits(b, 3) : \E d \in dropOptional(c, {")"}) :
         \E e \in dropOptional(d, {"-", " ", "."}) : \E f \in takeDigits(e, 3) :
           \E g \in dropOptional(f, {"-", " ", "."}) :
             Len(g) \in 4..6 /\ AllDigits(g)

\* A Date is the number yyyymmdd; NaN and null are NoDate.
NoDate == 0 - 1

DateNumber(y, m, d) == (y * 10000) + (m * 100) + d

IsIsoDate(t) ==
  /\ Len(t) = 10 /\ t[5] = "-" /\ t[8] = "-"
  /\ \A i \in {1, 2, 3, 4, 6, 7, 9, 10} : IsDigit(t[i])
  /\ parseDigits(SubSeq(t, 6, 7)) \in 1..12
  /\ parseDigits(SubSeq(t, 9, 10)) \in 1..31

IsSlashDate(t) ==
  /\ Len(t) = 10 /\ t[3] = "/" /\ t[6] = "/"
  /\ \A i \in {1, 2, 4, 5, 7, 8, 9, 10} : IsDigit(t[i])

\* /^(0[1-9]|1[0-2])\/(0[1-9]|[12][0-9]|3[01])\/\d{4}$/
usFormat(t) ==
  /\ IsSlashDate(t)
  /\ parseDigits(SubSeq(t, 1, 2)) \in 1..12
  /\ parseDigits(SubSeq(t, 4, 5)) \in 1..31

\* /^(0[1-9]|[12][0-9]|3[01])\/(0[1-9]|1[0-2])\/\d{4}$/
euFormat(t) ==
  /\ IsSlashDate(t)
  /\ parseDigits(SubSeq(t, 1, 2)) \in 1..31
  /\ parseDigits(SubSeq(t, 4, 5)) \in 1..12

\* new Date(text): ISO dates and month/day/year dates parse, the rest is NaN
jsDate(t) ==
  IF IsIsoDate(t)
  THEN DateNumber(parseDigits(SubSeq(t, 1, 4)), parseDigits(SubSeq(t, 6, 7)),
                  parseDigits(SubSeq(t, 9, 10)))
  ELSE IF usFormat(t)
  THEN DateNumber(parseDigits(SubSeq(t, 7, 10)), parseDigits(SubSeq(t, 1, 2)),
                  parseDigits(SubSeq(t, 4, 5)))
  ELSE NoDate

isValidDate(t) == t = <<>> \/ jsDate(t) # NoDate \/ usFormat(t) \/ euFormat(t)

parseDate(t) ==
  IF t = <<>> THEN NoDate
  ELSE IF jsDate(t) # NoDate THEN jsDate(t)
  ELSE IF euFormat(t)
  THEN DateNumber(parseDigits(SubSeq(t, 7, 10)), parseDigits(SubSeq(t, 4, 5)),
                  parseDigits(SubSeq(t, 1, 2)))
  ELSE NoDate

\* String(n) of a natural number
RECURSIVE toText(_)
toText(n) ==
  IF n < 10 THEN <<DigitChars[n + 1]>> ELSE toText(n \div 10) \o <<DigitChars[(n % 10) + 1]>>

\* validStatuses.find(s => s.toLowerCase() === String(v).toLowerCase())
findStatus(v) ==
  LET hits == {i \in DOMAIN validStatuses : toLowerCase(validStatuses[i]) = toLowerCase(v)}
  IN IF hits = {} THEN <<>>
     ELSE validStatuses[CHOOSE i \in hits : \A j \in hits : i <= j]

optionalFields ==
  <<"fullName", "externalId", "createdAtText",
    "nameCC", "ccNumberText", "expirationDateText", "securityCodeText", "zipCodeText">>

\* optionalFields.forEach(field => { if (clientData[field]) validatedData[field] = ...trim() })
RECURSIVE copyOptional(_, _, _)
copyOptional(fields, clientData, validated) ==
  IF fields = <<>> THEN validated
  ELSE copyOptional(Tail(fields), clientData,
         IF Has(clientData, Head(fields))
         THEN SetField(validated, Head(fields), trim(clientData[Head(fields)]))
         ELSE validated)

validateName(clientData, rowNumber) ==
  LET name == Get(clientData, "name")
      fallback ==
        IF trim(Get(clientData, "fullName")) # <<>> THEN trim(Get(clientData, "fullName"))
        ELSE IF trim(Get(clientData, "email")) # <<>> THEN trim(Get(clientData, "email"))
        ELSE IF trim(Get(clientData, "externalId")) # <<>> THEN trim(Get(clientData, "externalId"))
        ELSE t_Unnamed_Client_ \o toText(rowNumber)
  IN IF name = <<>> \/ Len(trim(name)) < 2
     THEN [name |-> sliceFirst(fallback, 200), warnings |-> <<[kind |-> "name-fallback", about |-> <<>>]>>]
     ELSE IF Len(name) > 200
     THEN [name |-> sliceFirst(trim(name), 200), warnings |-> <<[kind |-> "name-truncated", about |-> <<>>]>>]
     ELSE [name |-> trim(name), warnings |-> <<>>]

validateClientData(clientData, rowNumber) ==
  LET vName == validateName(clientData, rowNumber)
      d1 == SetField(EmptyDoc, "name", vName.name)
      email == Get(clientData, "email")
      emailOk == email # <<>> /\ isValidEmail(email)
      d2 == IF emailOk THEN SetField(d1, "email", toLowerCase(email)) ELSE d1
      w2 == IF email # <<>> /\ ~emailOk THEN <<[kind |-> "invalid-email", about |-> <<>>]>> ELSE <<>>
      status == Get(clientData, "contactStatus")
      found == findStatus(status)
      d3 == SetField(d2, "contactStatus",
              IF status # <<>> /\ found # <<>> THEN found ELSE t_Uncategorized)
      w3 == IF status # <<>> /\ found = <<>> THEN <<[kind |-> "unknown-status", about |-> status]>> ELSE <<>>
      phone == Get(clientData, "phone")
      d3p == IF phone # <<>> /\ isValidPhone(phone) THEN SetField(d3, "phone", trim(phone)) ELSE d3
      w3p == IF phone # <<>> /\ ~isValidPhone(phone) THEN <<[kind |-> "invalid-phone", about |-> <<>>]>> ELSE <<>>
      createdAt == Get(clientData, "createdAt")
      d4 == IF createdAt # <<>> /\ isValidDate(createdAt)
            THEN SetField(d3p, "createdAt", parseDate(createdAt)) ELSE d3p
      w4 == IF createdAt # <<>> /\ ~isValidDate(createdAt) THEN <<[kind |-> "invalid-createdAt", about |-> <<>>]>> ELSE <<>>
      idVal == trim(Get(clientData, "_id"))
      d5 == IF "_id" \in DOMAIN clientData /\ idVal # <<>> THEN SetField(d4, "_id", idVal) ELSE d4
      w5 == IF "_id" \in DOMAIN clientData /\ idVal = <<>> THEN <<[kind |-> "empty-id", about |-> <<>>]>> ELSE <<>>
      d6 == copyOptional(optionalFields, clientData, d5)
      errors == <<>>
  IN [rowNumber |-> rowNumber,
      isValid |-> Len(errors) = 0,
      data |-> d6,
      errors |-> errors,
      warnings |-> vName.warnings \o w2 \o w3 \o w3p \o w4 \o w5]

(***************************************************************************)
(* The Client collection.  A document is a function from field names to    *)
(* values; the collection is the sequence of its documents in insertion    *)
(* order.  An _id that the server generated is an ObjectId: its text       *)
(* starts with "#", which no text of a row contains.                       *)
(***************************************************************************)
\* new Date(): the wall clock at tick c, later than every date of a row
nowAt(c) == 20300101 + c

\* the paths of clientSchema the model follows; strict mode drops the others
schemaPaths ==
  {"_id", "externalId", "name", "email", "contactStatus", "createdAtText",
   "nameCC", "ccNumberText", "expirationDateText", "securityCodeText", "zipCodeText",
   "fullName", "createdAt", "updatedAt", "__v", "paymentMethods", "statusHistory",
   "lastNote", "interactionCount", "phone"}

trimPaths ==
  {"_id", "externalId", "name", "email", "nameCC", "ccNumberText",
   "expirationDateText", "securityCodeText", "zipCodeText", "fullName", "createdAtText",
   "phone"}

\* casting of an update or document by the schema: strict paths, trim, lowercase
castBySchema(d) ==
  [x \in DOMAIN d \cap schemaPaths |->
     IF x = "email" THEN toLowerCase(trim(d[x]))
     ELSE IF x \in trimPaths THEN trim(d[x])
     ELSE d[x]]

\* an ObjectId the server or the driver generated from the counter g
objectIdText(g) == <<"o">> \o toText(g)

serverObjectId(g) == <<"#">> \o objectIdText(g)

\* casting of an _id to the schema's String type: ObjectId.toString()
castIdToString(id) == IF id # <<>> /\ Head(id) = "#" THEN Tail(id) ELSE id

\* the position of the first document that matches { field: value }, or 0
findOneIndex(coll, field, value) ==
  LET hits == {i \in DOMAIN coll : field \in DOMAIN coll[i] /\ coll[i][field] = value}
  IN IF hits = {} THEN 0 ELSE CHOOSE i \in hits : \A j \in hits : i <= j

\* Client.findById(id): the id is cast to a String before the lookup
findById(coll, id) == findOneIndex(coll, "_id", castIdToString(id))

\* One updateOne { filter, update: { $set, $setOnInsert }, upsert: true } as
\* Model.bulkWrite sends it: the update is cast by the schema, the schema's
\* timestamps add updatedAt to $set and createdAt to $setOnInsert, and an
\* upsert gets the version key.  st is [coll, gen]; the result carries the
\* outcome: "matched", "upserted" or "error".
\* timestamps: createdAt on insert unless the update supplies one
withCreatedAt(soi, now) ==
  IF "createdAt" \in DOMAIN soi THEN soi ELSE SetField(soi, "createdAt", now)

\* the insert of an upsert: the server generates the _id the update lacks
insertFresh(st, fresh) ==
  IF "_id" \in DOMAIN fresh
  THEN IF findOneIndex(st.coll, "_id", fresh["_id"]) > 0
       THEN [st |-> st, outcome |-> "error", id |-> <<>>, modified |-> FALSE]
       ELSE [st |-> [st EXCEPT !.coll = Append(st.coll, fresh)],
             outcome |-> "upserted", id |-> fresh["_id"], modified |-> FALSE]
  ELSE [st |-> [coll |-> Append(st.coll, SetField(fresh, "_id", serverObjectId(st.gen))),
                gen |-> st.gen + 1],
        outcome |-> "upserted", id |-> serverObjectId(st.gen), modified |-> FALSE]

upsertWith(st, fField, fValue, set, soi, i) ==
  IF DOMAIN set \cap DOMAIN soi # {}
  THEN [st |-> st, outcome |-> "error", id |-> <<>>, modified |-> FALSE]
  ELSE IF i > 0
  THEN IF "_id" \in DOMAIN set /\ set["_id"] # st.coll[i]["_id"]
       THEN [st |-> st, outcome |-> "error", id |-> <<>>, modified |-> FALSE]
       ELSE [st |-> [st EXCEPT !.coll[i] = Merge(st.coll[i], set)],
             outcome |-> "matched", id |-> st.coll[i]["_id"],
             modified |-> \E x \in DOMAIN set :
                            x \notin DOMAIN st.coll[i] \/ st.coll[i][x] # set[x]]
  ELSE insertFresh(st, Merge(Merge(SetField(EmptyDoc, fField, fValue), soi), set))

updateOneUpsert(st, op, now) ==
  upsertWith(st, op.filter[1], op.filter[2],
             SetField(castBySchema(op.set), "updatedAt", now),
             SetField(withCreatedAt(castBySchema(op.setOnInsert), now), "__v", 0),
             findOneIndex(st.coll, op.filter[1], op.filter[2]))

\* Model.bulkWrite validates the document of an insertOne: _id and name are required
insertOneIsValid(op) ==
  LET d == castBySchema(op.document) IN Has(d, "_id") /\ Has(d, "name")

insertOne(st, op) ==
  LET d == SetField(castBySchema(op.document), "__v", 0)
  IN IF findOneIndex(st.coll, "_id", d["_id"]) > 0
     THEN [st |-> st, outcome |-> "error", id |-> <<>>, modified |-> FALSE]
     ELSE [st |-> [st EXCEPT !.coll = Append(st.coll, d)],
           outcome |-> "inserted", id |-> d["_id"], modified |-> FALSE]

execOp(st, op, now) ==
  IF op.kind = "updateOne" THEN updateOneUpsert(st, op, now) ELSE insertOne(st, op)

emptyBulkResult(st) ==
  [st |-> st, threw |-> FALSE, upsertedIds |-> EmptyDoc, insertedIds |-> EmptyDoc,
   matchedCount |-> 0, modifiedCount |-> 0, upsertedCount |-> 0, insertedCount |-> 0]

\* the result of a bulk write after one more operation, whose outcome is r
bulkStep(acc, r, i) ==
  [st |-> r.st,
   threw |-> acc.threw \/ r.outcome = "error",
   upsertedIds |-> IF r.outcome = "upserted"
                   THEN SetField(acc.upsertedIds, i, r.id) ELSE acc.upsertedIds,
   insertedIds |-> IF r.outcome = "inserted"
                   THEN SetField(acc.insertedIds, i, r.id) ELSE acc.insertedIds,
   matchedCount |-> acc.matchedCount + (IF r.outcome = "matched" THEN 1 ELSE 0),
   modifiedCount |-> acc.modifiedCount + (IF r.modified THEN 1 ELSE 0),
   upsertedCount |-> acc.upsertedCount + (IF r.outcome = "upserted" THEN 1 ELSE 0),
   insertedCount |-> acc.insertedCount + (IF r.outcome = "inserted" THEN 1 ELSE 0)]

\* the operations of one unordered bulk write, each attempted in turn: a write
\* error of one operation does not stop the others
RECURSIVE execOps(_, _, _, _)
execOps(ops, i, now, acc) ==
  IF i > Len(ops) THEN acc
  ELSE execOps(ops, i + 1, now, bulkStep(acc, execOp(acc.st, ops[i], now), i))

\* Client.bulkWrite(ops, { ordered: false }).  An insertOne that fails the
\* schema's validation either rejects the whole call before anything is sent
\* or, in a build whose Mongoose skips invalid operations of an unordered
\* call (skipsInvalid), is left out of what is sent.  After the operations
\* are attempted, any write error makes the call throw.
bulkWrite(st, ops, now, skipsInvalid) ==
  LET validIdx == {i \in DOMAIN ops : ops[i].kind = "updateOne" \/ insertOneIsValid(ops[i])}
      sent == SelectSeq(ops, LAMBDA op : op.kind = "updateOne" \/ insertOneIsValid(op))
  IN IF validIdx # DOMAIN ops /\ ~skipsInvalid
     THEN [emptyBulkResult(st) EXCEPT !.threw = TRUE]
     ELSE execOps(sent, 1, now, emptyBulkResult(st))
t_visa == <<"v", "i", "s", "a">>

t_mastercard == <<"m", "a", "s", "t", "e", "r", "c", "a", "r", "d">>

t_amex == <<"a", "m", "e", "x">>

t_discover == <<"d", "i", "s", "c", "o", "v", "e", "r">>

t_card == <<"c", "a", "r", "d">>

t_csv_ == <<"c", "s", "v", "_">>

(***************************************************************************)
(* Payment methods of a client document (models/Client.js) and the         *)
(* tokenisation of a row's card columns (importClients.runOne).            *)
(***************************************************************************)
prefixNumber(pan, n) == parseDigits(SubSeq(pan, 1, n))

detectBrand(pan) ==
  IF Head(pan) = "4" /\ Len(pan) \in 13..19 THEN t_visa
  ELSE IF \/ Len(pan) = 16 /\ prefixNumber(pan, 2) \in 51..55
          \/ Len(pan) = 15 /\ (\/ prefixNumber(pan, 3) \in 222..229
                               \/ prefixNumber(pan, 2) \in 23..26
                               \/ prefixNumber(pan, 3) \in 270..271
                               \/ prefixNumber(pan, 4) = 2720)
  THEN t_mastercard
  ELSE IF Len(pan) = 15 /\ prefixNumber(pan, 2) \in {34, 37} THEN t_amex
  ELSE IF Len(pan) = 16 /\ (\/ prefixNumber(pan, 4) = 6011
                            \/ prefixNumber(pan, 2) = 65
                            \/ prefixNumber(pan, 3) \in 644..649
                            \/ prefixNumber(pan, 6) \in 622126..622925)
  THEN t_discover
  ELSE t_card

\* exp.match(/^(\d{1,2})[\/\-](\d{2,4})$/): the position of the separator, or 0
expirySeparator(exp) ==
  LET hits == {p \in {2, 3} :
                 /\ p < Len(exp)
                 /\ exp[p] \in {"/", "-"}
                 /\ AllDigits(SubSeq(exp, 1, p - 1))
                 /\ AllDigits(SubSeq(exp, p + 1, Len(exp)))
                 /\ Len(exp) - p \in 2..4}
  IN IF hits = {} THEN 0 ELSE CHOOSE p \in hits : TRUE

Min(a, b) == IF a < b THEN a ELSE b

Max(a, b) == IF a > b THEN a ELSE b

\* a faulty tokenisation: the entry keeps the first four digits
tokenizeFirst4(pr, now) ==
  LET digits == digitsOnly(pr.ccNumber)
      exp == trim(pr.ccExp)
      p == expirySeparator(exp)
      mm == parseDigits(SubSeq(exp, 1, p - 1))
      yy == SubSeq(exp, p + 1, Len(exp))
      yyyy == IF Len(yy) = 2 THEN 2000 + parseDigits(yy) ELSE parseDigits(yy)
      brand == detectBrand(digits)
      last4 == sliceFirst(digits, 4)
  IN IF digits = <<>> \/ Len(digits) < 13 \/ Len(digits) > 19 \/ p = 0
     THEN [ok |-> FALSE]
     ELSE [ok |-> TRUE,
           id |-> t_csv_ \o brand \o <<"_">> \o last4 \o <<"_">> \o toText(now),
           brand |-> brand,
           last4 |-> last4,
           expMonth |-> Min(12, Max(1, mm)),
           expYear |-> yyyy,
           nameOnCard |-> pr.nameOnCard,
           billingZip |-> pr.billingZip,
           isDefault |-> TRUE]

\* The synchronous part of one loop iteration of runOne before it resolves the
\* client: ok is FALSE where the code says `continue`.
tokenize(pr, now) ==
  LET digits == digitsOnly(pr.ccNumber)
      exp == trim(pr.ccExp)
      p == expirySeparator(exp)
      mm == parseDigits(SubSeq(exp, 1, p - 1))
      yy == SubSeq(exp, p + 1, Len(exp))
      yyyy == IF Len(yy) = 2 THEN 2000 + parseDigits(yy) ELSE parseDigits(yy)
      brand == detectBrand(digits)
      last4 == sliceLast(digits, 4)
  IN IF digits = <<>> \/ Len(digits) < 13 \/ Len(digits) > 19 \/ p = 0
     THEN [ok |-> FALSE]
     ELSE [ok |-> TRUE,
           id |-> t_csv_ \o brand \o <<"_">> \o last4 \o <<"_">> \o toText(now),
           brand |-> brand,
           last4 |-> last4,
           expMonth |-> Min(12, Max(1, mm)),
           expYear |-> yyyy,
           nameOnCard |-> pr.nameOnCard,
           billingZip |-> pr.billingZip,
           isDefault |-> TRUE]

\* a faulty addPaymentMethod: the entries the record holds keep their flag
addPaymentMethodListKeep(list, data) ==
  Append(list,
       [id |-> data.id, brand |-> data.brand, last4 |-> data.last4,
        expMonth |-> data.expMonth, expYear |-> data.expYear,
        nameOnCard |-> data.nameOnCard, billingZip |-> data.billingZip,
        isDefault |-> Len(list) = 0 \/ data.isDefault])

\* the body of clientSchema.methods.addPaymentMethod up to its save: the new
\* value of paymentMethod.paymentMethods
addPaymentMethodList(list, data) ==
  LET makeDefault == Len(list) = 0 \/ data.isDefault
      others == IF makeDefault
                THEN [i \in DOMAIN list |-> [list[i] EXCEPT !.isDefault = FALSE]]
                ELSE list
  IN Append(others,
       [id |-> data.id, brand |-> data.brand, last4 |-> data.last4,
        expMonth |-> data.expMonth, expYear |-> data.expYear,
        nameOnCard |-> data.nameOnCard, billingZip |-> data.billingZip,
        isDefault |-> makeDefault \/ data.isDefault])

\* the validators of one paymentMethods entry that save() runs
entryIsValid(e) ==
  /\ e.id # <<>> /\ e.brand # <<>>
  /\ Len(e.last4) = 4 /\ AllDigits(e.last4)
  /\ e.expMonth \in 1..12
  /\ e.expYear >= 2020

listIsValid(list) == \A i \in DOMAIN list : entryIsValid(list[i])

paymentMethodsOf(doc) == IF "paymentMethods" \in DOMAIN doc THEN doc["paymentMethods"] ELSE <<>>

versionOf(doc) == IF "__v" \in DOMAIN doc THEN doc["__v"] ELSE 0

\* What document.save() sends for the array after addPaymentMethod changed a
\* document loaded with the list `loaded`: only a push when no loaded entry
\* was changed, the whole array (guarded by the version) when one was.
saveDelta(loaded, version, changed) ==
  IF Len(changed) >= Len(loaded) /\ SubSeq(changed, 1, Len(loaded)) = loaded
  THEN [kind |-> "push", list |-> SubSeq(changed, Len(loaded) + 1, Len(changed)),
        version |-> version]
  ELSE [kind |-> "setArray", list |-> changed, version |-> version]

\* The store applying a save: "ok" with the new collection, or "error"
\* (the document is gone, or the version no longer matches: VersionError).
applySave(coll, id, delta, now) ==
  LET i == findOneIndex(coll, "_id", id)
      doc == coll[i]
      newList == IF delta.kind = "push" THEN paymentMethodsOf(doc) \o delta.list
                 ELSE delta.list
  IN IF i = 0 \/ (delta.kind = "setArray" /\ versionOf(doc) # delta.version)
     THEN [ok |-> FALSE, coll |-> coll]
     ELSE [ok |-> TRUE,
           coll |-> [coll EXCEPT ![i] =
                       SetField(SetField(SetField(doc, "paymentMethods", newList),
                                         "__v", versionOf(doc) + 1),
                                "updatedAt", now)]]

\* the validators of the document's own paths that save() runs: name is
\* required, contactStatus is one of the schema's enum values
docIsValid(doc) ==
  /\ Has(doc, "name")
  /\ "contactStatus" \in DOMAIN doc => doc["contactStatus"] \in Range(validStatuses)

\* a faulty save: a rejected save is not reported to the caller
saveDocumentSilent(coll, id, delta, now) ==
  IF findOneIndex(coll, "_id", id) = 0 \/ ~listIsValid(delta.list)
  THEN [threw |-> FALSE, coll |-> coll]
  ELSE [threw |-> FALSE, coll |-> applySave(coll, id, delta, now).coll]

\* await this.save() of a document whose list was changed: validation runs
\* first; threw is TRUE when save() rejects
saveDocument(coll, id, delta, now) ==
  IF findOneIndex(coll, "_id", id) = 0 THEN [threw |-> TRUE, coll |-> coll]
  ELSE IF ~docIsValid(coll[findOneIndex(coll, "_id", id)]) \/ ~listIsValid(delta.list)
  THEN [threw |-> TRUE, coll |-> coll]
  ELSE [threw |-> ~applySave(coll, id, delta, now).ok,
        coll |-> applySave(coll, id, delta, now).coll]

(***************************************************************************)
(* importClients: the write operations, the payment tasks and the worker   *)
(* pool.                                                                   *)
(***************************************************************************)
EXCLUDE_KEYS ==
  {"_id", "paymentMethod", "statusHistory", "createdAt", "updatedAt", "__v", "__paymentRaw"}

NoFilter == <<"", <<>>>>

\* the createdAt of a row for an insert: the parsed hint, else the wall clock
createdAtFor(data, now) ==
  IF "createdAt" \in DOMAIN data /\ data["createdAt"] # NoDate THEN data["createdAt"] ELSE now

\* a faulty csvOp: every row is a plain insert
csvOpInsertOnly(data, now) ==
  [kind |-> "insertOne",
   filter |-> NoFilter,
   set |-> EmptyDoc,
   setOnInsert |-> EmptyDoc,
   document |-> SetField(SetField(Without(data, EXCLUDE_KEYS \ {"_id"}), "createdAt",
                                  createdAtFor(data, now)),
                         "updatedAt", now)]

\* the operation pushed to ops for one valid row
csvOp(data, now) ==
  LET setPayload == Without(data, EXCLUDE_KEYS)
      hasId == Has(data, "_id")
      hasEmail == Has(data, "email")
  IN IF hasId \/ hasEmail
     THEN [kind |-> "updateOne",
           filter |-> IF hasId THEN <<"_id", data["_id"]>> ELSE <<"email", data["email"]>>,
           set |-> setPayload,
           setOnInsert |-> SetField(EmptyDoc, "createdAt", createdAtFor(data, now)),
           document |-> EmptyDoc]
     ELSE [kind |-> "insertOne",
           filter |-> NoFilter,
           set |-> EmptyDoc,
           setOnInsert |-> EmptyDoc,
           document |-> SetField(SetField(setPayload, "createdAt", createdAtFor(data, now)),
                                 "updatedAt", now)]

\* the entry pushed to opMeta for the same row
csvMeta(vrow, mrow, now) ==
  LET op == csvOp(vrow.data, now)
  IN [type |-> IF op.kind = "updateOne" THEN "update" ELSE "insert",
      filter |-> op.filter,
      rowNumber |-> vrow.rowNumber,
      name |-> Get(vrow.data, "name"),
      email |-> Get(vrow.data, "email"),
      hasPaymentRaw |-> mrow.hasPaymentRaw,
      paymentRaw |-> mrow.paymentRaw]

mapRows(rows) == [i \in DOMAIN rows |-> mapRow(rows[i], i)]

\* batchValidateClients(mappedRows).validRows
validRowsOf(mapped) ==
  SelectSeq([i \in DOMAIN mapped |-> validateClientData(mapped[i].data, mapped[i].rowNumber)],
            LAMBDA r : r.isValid)

csvOpsOf(valid, now) == [i \in DOMAIN valid |-> csvOp(valid[i].data, now)]

csvMetasOf(valid, mapped, now) ==
  [i \in DOMAIN valid |-> csvMeta(valid[i], mapped[valid[i].rowNumber], now)]

csvOps(rows, now) == csvOpsOf(validRowsOf(mapRows(rows)), now)

\* opMeta.forEach(...): the rows of pendingByIndex, in row order
hasPaymentData(m) ==
  /\ m.hasPaymentRaw
  /\ \E k \in DOMAIN m.paymentRaw : m.paymentRaw[k] # <<>>

pendingItem(m, idx, insertedIds) ==
  [idx |-> idx,
   pr |-> m.paymentRaw,
   clientId |-> IF m.type = "update" /\ m.filter[1] = "_id" THEN m.filter[2]
                ELSE IF m.type = "insert" /\ idx \in DOMAIN insertedIds THEN insertedIds[idx]
                ELSE <<>>,
   needsEmail |-> m.type = "update" /\ m.filter[1] = "email",
   email |-> IF m.filter[1] = "email" THEN m.filter[2] ELSE m.email]

pendingByIndex(metas, insertedIds) ==
  LET idxs == SelectSeq([i \in DOMAIN metas |-> i], LAMBDA i : hasPaymentData(metas[i]))
  IN [k \in DOMAIN idxs |-> pendingItem(metas[idxs[k]], idxs[k], insertedIds)]

\* Client.find({ email: { $in } }).lean() reduced to email -> _id: the last
\* document with an email wins
emailMapOf(coll, pending) ==
  LET emails == {pending[k].email : k \in {j \in DOMAIN pending :
                    pending[j].clientId = <<>> /\ pending[j].needsEmail}}
      found == {e \in emails : findOneIndex(coll, "email", e) > 0}
  IN [e \in found |->
        coll[CHOOSE i \in DOMAIN coll :
               /\ "email" \in DOMAIN coll[i] /\ coll[i]["email"] = e
               /\ \A j \in DOMAIN coll :
                    ("email" \in DOMAIN coll[j] /\ coll[j]["email"] = e) => j <= i]["_id"]]

\* opMeta.forEach((m, idx) => ...): the entry of createdEntries for the
\* operation at idx, or none
createdEntry(m, idx, bulk) ==
  IF \/ m.type = "update" /\ idx \in DOMAIN bulk.upsertedIds
     \/ m.type = "insert" /\ idx \in DOMAIN bulk.insertedIds
  THEN <<[id |-> IF m.type = "update" THEN bulk.upsertedIds[idx] ELSE bulk.insertedIds[idx],
          name |-> m.name, email |-> m.email]>>
  ELSE IF m.type = "update" /\ m.filter[1] = "email" /\ m.filter[2] # <<>>
          /\ bulk.upsertedCount > 0
  THEN <<[id |-> <<>>, name |-> m.name, email |-> m.filter[2]]>>
  ELSE IF m.type = "insert"
  THEN <<[id |-> <<>>, name |-> m.name, email |-> m.email]>>
  ELSE <<>>

RECURSIVE createdEntries(_, _, _)
createdEntries(metas, idx, bulk) ==
  IF idx > Len(metas) THEN <<>>
  ELSE createdEntry(metas[idx], idx, bulk) \o createdEntries(metas, idx + 1, bulk)

\* Client.find({ email: { $in: emails } }) reduced to email -> _id, and the
\* entries without an id resolved through it
resolveEntry(coll, e) ==
  IF e.id = <<>> /\ e.email # <<>> /\ findOneIndex(coll, "email", e.email) > 0
  THEN [e EXCEPT !.id =
          coll[CHOOSE i \in DOMAIN coll :
                 /\ "email" \in DOMAIN coll[i] /\ coll[i]["email"] = e.email
                 /\ \A j \in DOMAIN coll :
                      ("email" \in DOMAIN coll[j] /\ coll[j]["email"] = e.email) => j <= i]["_id"]]
  ELSE e

\* the documents handed to Activity.insertMany, by their clientId
activityDocsOf(metas, bulk) ==
  LET entries == createdEntries(metas, 1, bulk)
      resolved == [k \in DOMAIN entries |-> resolveEntry(bulk.st.coll, entries[k])]
      logged == SelectSeq(resolved, LAMBDA e : e.id # <<>>)
  IN [k \in DOMAIN logged |-> [clientId |-> logged[k].id, type |-> "created"]]

\* the number of workers
workers == 16

IdleWorker ==
  [pc |-> "done", pos |-> 0, cid |-> <<>>, tok |-> [ok |-> FALSE], delta |-> [kind |-> "none"]]

\* a faulty runOne: the item is read at the cursor and the cursor is advanced
\* only after the await, so a second worker can read the same item
RECURSIVE runOneStale(_, _, _, _)
runOneStale(q, eMap, n, now) ==
  IF n >= Len(q) THEN [qi |-> n + 1, worker |-> IdleWorker]
  ELSE LET item == q[n + 1]
           tok == tokenize(item.pr, now)
           cid == IF item.clientId # <<>> THEN item.clientId
                  ELSE IF item.email # <<>> /\ item.email \in DOMAIN eMap THEN eMap[item.email]
                  ELSE <<>>
       IN IF ~tok.ok \/ cid = <<>> THEN runOneStale(q, eMap, n + 1, now)
          ELSE [qi |-> n,
                worker |-> [pc |-> "find", pos |-> n + 1, cid |-> cid, tok |-> tok,
                            delta |-> [kind |-> "none"]]]

\* runOne from `while (true)` to its next await or its end.  q is the queue,
\* n the value of qi; the result is the new qi and the worker's state.
RECURSIVE runOne(_, _, _, _)
runOne(q, eMap, n, now) ==
  IF n >= Len(q) THEN [qi |-> n + 1, worker |-> IdleWorker]
  ELSE LET item == q[n + 1]
           tok == tokenize(item.pr, now)
           cid == IF item.clientId # <<>> THEN item.clientId
                  ELSE IF item.email # <<>> /\ item.email \in DOMAIN eMap THEN eMap[item.email]
                  ELSE <<>>
       IN IF ~tok.ok \/ cid = <<>> THEN runOne(q, eMap, n + 1, now)
          ELSE [qi |-> n + 1,
                worker |-> [pc |-> "find", pos |-> n + 1, cid |-> cid, tok |-> tok,
                            delta |-> [kind |-> "none"]]]

\* Array.from({ length: workers }).map(() => runOne()): each call runs to its
\* first await before the next one starts; acc holds one idle worker per call
RECURSIVE launch(_, _, _, _, _, _)
launch(w, q, eMap, n, now, acc) ==
  IF w > Len(acc) THEN [qi |-> n, wk |-> acc]
  ELSE LET r == runOne(q, eMap, n, now)
       IN launch(w + 1, q, eMap, r.qi, now, [acc EXCEPT ![w] = r.worker])
\* Client_id,Name,Email,Created At,Contact Status,CC Number,Expiration Date,Security Code
rowAda ==
  << <<<<"C", "l", "i", "e", "n", "t", "_", "i", "d">>, <<"A">>>>,
     <<<<"N", "a", "m", "e">>, <<"A", "d", "a">>>>,
     <<<<"E", "m", "a", "i", "l">>, <<"a", "@", "x", ".", "c", "o">>>>,
     <<<<"C", "r", "e", "a", "t", "e", "d", " ", "A", "t">>, <<"2", "0", "2", "0", "-", "0", "1", "-", "0", "5">>>>,
     <<<<"C", "o", "n", "t", "a", "c", "t", " ", "S", "t", "a", "t", "u", "s">>, <<"s", "a", "m", "p", "l", "i", "n", "g">>>>,
     <<<<"C", "C", " ", "N", "u", "m", "b", "e", "r">>, <<"4", "2", "4", "2", "4", "2", "4", "2", "4", "2", "4", "2", "4", "2", "4", "2">>>>,
     <<<<"E", "x", "p", "i", "r", "a", "t", "i", "o", "n", " ", "D", "a", "t", "e">>, <<"0", "9", "/", "2", "6">>>>,
     <<<<"S", "e", "c", "u", "r", "i", "t", "y", " ", "C", "o", "d", "e">>, <<"1", "2", "3">>>> >>

\* a row identified by its email alone, with a blank name, an unparsable date,
\* an unknown contact status and card columns under their compact spellings
rowEmailOnly ==
  << <<<<"N", "a", "m", "e">>, <<>>>>,
     <<<<"E", "m", "a", "i", "l">>, <<"B", "@", "x", ".", "c", "o">>>>,
     <<<<"C", "r", "e", "a", "t", "e", "d", " ", "A", "t">>, <<"j", "u", "n", "k">>>>,
     <<<<"C", "o", "n", "t", "a", "c", "t", " ", "S", "t", "a", "t", "u", "s">>, <<"h", "o", "t">>>>,
     <<<<"C", "C", "N", "u", "m", "b", "e", "r">>, <<"5", "5", "5", "5", "5", "5", "5", "5", "5", "5", "5", "5", "4", "4", "4", "4">>>>,
     <<<<"S", "e", "c", "u", "r", "i", "t", "y", "C", "o", "d", "e">>, <<"9", "9", "9">>>> >>

\* a row with no id, no email and no name
rowAnonymous ==
  << <<<<"N", "a", "m", "e">>, <<>>>>,
     <<<<"P", "h", "o", "n", "e">>, <<>>>> >>

\* a card whose expiry year is before 2020
rowExpired ==
  << <<<<"C", "l", "i", "e", "n", "t", "_", "i", "d">>, <<"A">>>>,
     <<<<"C", "C", " ", "N", "u", "m", "b", "e", "r">>, <<"4", "0", "1", "2", "8", "8", "8", "8", "8", "8", "8", "8", "1", "8", "8", "1">>>>,
     <<<<"E", "x", "p", "i", "r", "a", "t", "i", "o", "n", " ", "D", "a", "t", "e">>, <<"1", "/", "1", "9">>>>,
     <<<<"S", "e", "c", "u", "r", "i", "t", "y", " ", "C", "o", "d", "e">>, <<"4", "5", "6">>>> >>

\* a row identified by its email alone, with a card
rowEmailCard ==
  << <<<<"E", "m", "a", "i", "l">>, <<"c", "@", "x", ".", "c", "o">>>>,
     <<<<"C", "C", " ", "N", "u", "m", "b", "e", "r">>, <<"5", "5", "5", "5", " ", "5", "5", "5", "5", " ", "5", "5", "5", "5", " ", "4", "4", "4", "4">>>>,
     <<<<"E", "x", "p", "i", "r", "a", "t", "i", "o", "n", " ", "D", "a", "t", "e">>, <<"1", "-", "2", "0", "2", "7">>>> >>

\* a row whose id has the shape of an ObjectId: 24 hexadecimal digits
rowHex ==
  << <<<<"C", "l", "i", "e", "n", "t", "_", "i", "d">>, <<"5", "0", "7", "f", "1", "f", "7", "7", "b", "c", "f", "8", "6", "c", "d", "7", "9", "9", "4", "3", "9", "0", "1", "1">>>>,
     <<<<"N", "a", "m", "e">>, <<"H", "e", "x">>>>,
     <<<<"C", "o", "n", "t", "a", "c", "t", " ", "S", "t", "a", "t", "u", "s">>, <<"S", "a", "m", "p", "l", "i", "n", "g">>>> >>

\* a card whose expiry names month 13
rowClamped ==
  << <<<<"C", "l", "i", "e", "n", "t", "_", "i", "d">>, <<"B">>>>,
     <<<<"N", "a", "m", "e">>, <<"B", "o">>>>,
     <<<<"C", "C", " ", "N", "u", "m", "b", "e", "r">>, <<"3", "7", "8", "2", " ", "8", "2", "2", "4", "6", "3", " ", "1", "0", "0", "0", "5">>>>,
     <<<<"E", "x", "p", "i", "r", "a", "t", "i", "o", "n", " ", "D", "a", "t", "e">>, <<"1", "3", "/", "2", "6">>>>,
     <<<<"S", "e", "c", "u", "r", "i", "t", "y", " ", "C", "o", "d", "e">>, <<"1", "2", "3", "4">>>> >>

\* a card whose security code has two digits
rowBadCode ==
  << <<<<"C", "l", "i", "e", "n", "t", "_", "i", "d">>, <<"C">>>>,
     <<<<"N", "a", "m", "e">>, <<"C", "y">>>>,
     <<<<"C", "C", " ", "N", "u", "m", "b", "e", "r">>, <<"6", "0", "1", "1", "1", "1", "1", "1", "1", "1", "1", "1", "1", "1", "1", "7">>>>,
     <<<<"E", "x", "p", "i", "r", "a", "t", "i", "o", "n", " ", "D", "a", "t", "e">>, <<"9", "-", "2", "6">>>>,
     <<<<"S", "e", "c", "u", "r", "i", "t", "y", " ", "C", "o", "d", "e">>, <<"1", "2">>>> >>

\* a row with an id and a phone number, and a blank name
rowPhone ==
  << <<<<"C", "l", "i", "e", "n", "t", "_", "i", "d">>, <<"D">>>>,
     <<<<"N", "a", "m", "e">>, <<>>>>,
     <<<<"P", "h", "o", "n", "e">>, <<"5", "5", "5", "-", "0", "1", "0", "0">>>> >>

\* a row with an id, and an invalid email, an invalid phone number and an unknown status
rowBadFields ==
  << <<<<"C", "l", "i", "e", "n", "t", "_", "i", "d">>, <<"E">>>>,
     <<<<"N", "a", "m", "e">>, <<"E", "v", "e">>>>,
     <<<<"E", "m", "a", "i", "l">>, <<"e", "v", "e", "@">>>>,
     <<<<"P", "h", "o", "n", "e">>, <<"1", "2">>>>,
     <<<<"C", "o", "n", "t", "a", "c", "t", " ", "S", "t", "a", "t", "u", "s">>, <<"h", "o", "t">>>> >>

\* a named row with an invalid email and no id
rowBadEmail ==
  << <<<<"N", "a", "m", "e">>, <<"F", "l", "o">>>>,
     <<<<"E", "m", "a", "i", "l">>, <<"f", "l", "o", "@">>>>,
     <<<<"P", "h", "o", "n", "e">>, <<"5", "5", "5", " ", "0", "1", "0", " ", "0", "1", "0", "0">>>> >>

\* a card number with too few digits
rowShortCard ==
  << <<<<"C", "l", "i", "e", "n", "t", "_", "i", "d">>, <<"B">>>>,
     <<<<"C", "C", " ", "N", "u", "m", "b", "e", "r">>, <<"1", "2", "3", "4">>>>,
     <<<<"E", "x", "p", "i", "r", "a", "t", "i", "o", "n", " ", "D", "a", "t", "e">>, <<"0", "9", "/", "2", "6">>>> >>

\* the names getRaw is called with, per field of `out`
aliases ==
  [_id |->
     << <<"_", "i", "d">>,
        <<"i", "d">>,
        <<"c", "l", "i", "e", "n", "t", "_", "i", "d">>,
        <<"c", "l", "i", "e", "n", "t", "i", "d">> >>,
   externalId |->
     << <<"e", "x", "t", "e", "r", "n", "a", "l", "I", "d">>,
        <<"e", "x", "t", "e", "r", "n", "a", "l", "_", "i", "d">>,
        <<"e", "x", "t", "e", "r", "n", "a", "l", "-", "i", "d">> >>,
   name |->
     << <<"n", "a", "m", "e">>,
        <<"c", "l", "i", "e", "n", "t", "n", "a", "m", "e">>,
        <<"c", "u", "s", "t", "o", "m", "e", "r", "n", "a", "m", "e">> >>,
   contactStatus |->
     << <<"c", "o", "n", "t", "a", "c", "t", "S", "t", "a", "t", "u", "s">>,
        <<"c", "o", "n", "t", "a", "c", "t", "_", "s", "t", "a", "t", "u", "s">>,
        <<"s", "t", "a", "t", "u", "s">> >>,
   phone |->
     << <<"p", "h", "o", "n", "e">>,
        <<"t", "e", "l", "e", "p", "h", "o", "n", "e">>,
        <<"m", "o", "b", "i", "l", "e">>,
        <<"p", "h", "o", "n", "e", "N", "u", "m", "b", "e", "r">>,
        <<"p", "h", "o", "n", "e", "_", "n", "u", "m", "b", "e", "r">> >>,
   email |->
     << <<"e", "m", "a", "i", "l">>,
        <<"e", "-", "m", "a", "i", "l">> >>,
   createdAtText |->
     << <<"c", "r", "e", "a", "t", "e", "d", "A", "t", "T", "e", "x", "t">>,
        <<"c", "r", "e", "a", "t", "e", "d", "A", "t">>,
        <<"c", "r", "e", "a", "t", "e", "d", "_", "a", "t">> >>,
   fullName |->
     << <<"f", "u", "l", "l", "N", "a", "m", "e">>,
        <<"f", "u", "l", "l", "_", "n", "a", "m", "e">>,
        <<"f", "u", "l", "l", "n", "a", "m", "e">> >>,
   firstName |->
     << <<"f", "i", "r", "s", "t", "N", "a", "m", "e">>,
        <<"f", "i", "r", "s", "t", "_", "n", "a", "m", "e">>,
        <<"f", "i", "r", "s", "t", "n", "a", "m", "e">>,
        <<"g", "i", "v", "e", "n", "n", "a", "m", "e">> >>,
   lastName |->
     << <<"l", "a", "s", "t", "N", "a", "m", "e">>,
        <<"l", "a", "s", "t", "_", "n", "a", "m", "e">>,
        <<"l", "a", "s", "t", "n", "a", "m", "e">>,
        <<"s", "u", "r", "n", "a", "m", "e">>,
        <<"f", "a", "m", "i", "l", "y", "n", "a", "m", "e">> >>,
   company |->
     << <<"c", "o", "m", "p", "a", "n", "y">>,
        <<"c", "o", "m", "p", "a", "n", "y", "N", "a", "m", "e">>,
        <<"c", "o", "m", "p", "a", "n", "y", "_", "n", "a", "m", "e">>,
        <<"b", "u", "s", "i", "n", "e", "s", "s">>,
        <<"o", "r", "g", "a", "n", "i", "z", "a", "t", "i", "o", "n">>,
        <<"o", "r", "g">>,
        <<"c", "o", "m", "p", "a", "n", "y", "n", "a", "m", "e">> >>,
   nameCC |->
     << <<"n", "a", "m", "e", "C", "C">>,
        <<"n", "a", "m", "e", "_", "o", "n", "_", "c", "a", "r", "d">> >>,
   ccNumberText |->
     << <<"c", "c", "N", "u", "m", "b", "e", "r", "T", "e", "x", "t">>,
        <<"c", "a", "r", "d", "N", "u", "m", "b", "e", "r">>,
        <<"c", "c", "N", "u", "m", "b", "e", "r">> >>,
   expirationDateText |->
     << <<"e", "x", "p", "i", "r", "a", "t", "i", "o", "n", "D", "a", "t", "e", "T", "e", "x", "t">>,
        <<"e", "x", "p", "i", "r", "a", "t", "i", "o", "n", "D", "a", "t", "e">>,
        <<"e", "x", "p", "i", "r", "a", "t", "i", "o", "n", "_", "d", "a", "t", "e">>,
        <<"e", "x", "p", "D", "a", "t", "e">>,
        <<"e", "x", "p", "_", "d", "a", "t", "e">>,
        <<"c", "c", "E", "x", "p">>,
        <<"e", "x", "p", "i", "r", "y">>,
        <<"e", "x", "p", "i", "r", "a", "t", "i", "o", "n">>,
        <<"m", "m", "/", "y", "y">>,
        <<"m", "m", "_", "y", "y">> >>,
   securityCodeText |->
     << <<"s", "e", "c", "u", "r", "i", "t", "y", "C", "o", "d", "e", "T", "e", "x", "t">>,
        <<"c", "c", "C", "v", "v">>,
        <<"c", "v", "v">>,
        <<"c", "v", "c">> >>,
   zipCodeText |->
     << <<"z", "i", "p", "C", "o", "d", "e", "T", "e", "x", "t">>,
        <<"b", "i", "l", "l", "i", "n", "g", "Z", "i", "p">>,
        <<"b", "i", "l", "l", "i", "n", "g", "_", "z", "i", "p">> >>]

\* a JSON row with an id, an email, a creation date and card fields
jsonAda ==
  << <<<<"_", "i", "d">>, <<"A">>>>,
     <<<<"n", "a", "m", "e">>, <<"A", "d", "a">>>>,
     <<<<"E", "m", "a", "i", "l">>, <<"A", "@", "x", ".", "c", "o">>>>,
     <<<<"c", "r", "e", "a", "t", "e", "d", "_", "a", "t">>, <<"2", "0", "2", "0", "-", "0", "1", "-", "0", "5">>>>,
     <<<<"c", "a", "r", "d", "N", "u", "m", "b", "e", "r">>, <<"4", "2", "4", "2", "4", "2", "4", "2", "4", "2", "4", "2", "4", "2", "4", "2">>>>,
     <<<<"c", "v", "v">>, <<"1", "2", "3">>>>,
     <<<<"c", "c", "E", "x", "p">>, <<"9", "2", "6">>>> >>

\* a JSON row identified by its email alone, with an unknown contact status
jsonEmailOnly ==
  << <<<<"e", "-", "m", "a", "i", "l">>, <<"b", "@", "x", ".", "c", "o">>>>,
     <<<<"f", "i", "r", "s", "t", "_", "n", "a", "m", "e">>, <<"B", "e", "a">>>>,
     <<<<"l", "a", "s", "t", "N", "a", "m", "e">>, <<"L", "e", "e">>>>,
     <<<<"s", "t", "a", "t", "u", "s">>, <<"h", "o", "t">>>>,
     <<<<"C", "C", " ", "N", "u", "m", "b", "e", "r">>, <<"5", "5", "5", "5", "5", "5", "5", "5", "5", "5", "5", "5", "4", "4", "4", "4">>>>,
     <<<<"S", "e", "c", "u", "r", "i", "t", "y", " ", "C", "o", "d", "e">>, <<"9", "9", "9">>>> >>

\* a JSON row with no id, no email and no name
jsonAnonymous ==
  << <<<<"n", "a", "m", "e">>, <<>>>>,
     <<<<"p", "h", "o", "n", "e">>, <<>>>> >>

(***************************************************************************)
(* importClientsBatch.  A JSON row is the sequence of its <<key, value>>   *)
(* pairs.                                                                  *)
(***************************************************************************)
\* the chunk sizes of importClientsBatch, in rows of this model: the source's
\* 500, 2000 and 5000 scaled to requests of MaxRows rows
MinChunk == 1

DefaultChunk == 2

MaxChunk == 3

\* Math.max(500, Math.min(parseInt(batchSize || '2000', 10) || 2000, 5000));
\* batchSize 0 stands for an absent or unparsable value
chunkSizeOf(batchSize) ==
  Max(MinChunk, Min(IF batchSize = 0 THEN DefaultChunk ELSE batchSize, MaxChunk))

\* norm(k): lower case, without whitespace, underscores and hyphens
norm(k) == toLowerCase(SelectSeq(k, LAMBDA c : c \notin {" ", "_", "-"}))

\* map[norm(k)] = r[k] over the keys of the row (ks: the keys, normalised):
\* the last key of a spelling wins
rowMapOf(raw, ks) ==
  [n \in Range(ks) |->
     raw[CHOOSE i \in DOMAIN raw : ks[i] = n /\ \A j \in DOMAIN raw : ks[j] = n => j <= i][2]]

rowMap(raw) == rowMapOf(raw, [i \in DOMAIN raw |-> norm(raw[i][1])])

\* norm(n) of the names getRaw is called with
aliasNorms == [f \in DOMAIN aliases |-> [i \in DOMAIN aliases[f] |-> norm(aliases[f][i])]]

\* s(getRaw(...names)): the first non-blank value, trimmed ('' when none);
\* names are given normalised
RECURSIVE getRaw(_, _)
getRaw(map, names) ==
  IF names = <<>> THEN <<>>
  ELSE IF Head(names) \in DOMAIN map /\ trim(map[Head(names)]) # <<>>
  THEN trim(map[Head(names)])
  ELSE getRaw(map, Tail(names))

padStart2(t) == IF Len(t) < 2 THEN <<"0">> \o t ELSE t

\* raw.match(/^(\d{1,2})[\/-]?(\d{2})$/): the length of the first group, or 0
shortExpiryMonthLen(raw) ==
  LET hits == {m \in {1, 2} :
                 /\ Len(raw) \in {m + 2, m + 3}
                 /\ AllDigits(SubSeq(raw, 1, m))
                 /\ AllDigits(SubSeq(raw, Len(raw) - 1, Len(raw)))
                 /\ Len(raw) = m + 3 => raw[m + 1] \in {"/", "-"}}
  IN IF hits = {} THEN 0 ELSE CHOOSE m \in hits : \A k \in hits : k <= m

normalizeExpiryOf(raw, digits) ==
  IF raw = <<>> THEN <<>>
  ELSE IF Len(digits) = 3
  THEN <<"0", digits[1], "/", digits[2], digits[3]>>
  ELSE IF Len(digits) = 4
  THEN <<digits[1], digits[2], "/", digits[3], digits[4]>>
  ELSE IF shortExpiryMonthLen(raw) > 0
  THEN padStart2(SubSeq(raw, 1, shortExpiryMonthLen(raw)))
         \o <<"/">> \o SubSeq(raw, Len(raw) - 1, Len(raw))
  ELSE raw

normalizeExpiry(val) == normalizeExpiryOf(trim(val), digitsOnly(trim(val)))

\* the fields of `out` before the name is derived
sanitizeFields(map) ==
  [f \in DOMAIN aliases |->
     IF f = "email" THEN toLowerCase(getRaw(map, aliasNorms[f]))
     ELSE IF f = "expirationDateText" THEN normalizeExpiry(getRaw(map, aliasNorms[f]))
     ELSE getRaw(map, aliasNorms[f])]

firstAndLast(out) ==
  IF out.firstName # <<>> /\ out.lastName # <<>>
  THEN JoinWith(out.firstName, " ", out.lastName)
  ELSE out.firstName \o out.lastName

\* fullName -> company -> first + last -> email -> phone -> 'Unnamed Client'
derivedName(out) ==
  IF out.fullName # <<>> THEN out.fullName
  ELSE IF out.company # <<>> THEN out.company
  ELSE IF firstAndLast(out) # <<>> THEN firstAndLast(out)
  ELSE IF out.email # <<>> THEN out.email
  ELSE IF out.phone # <<>> THEN out.phone
  ELSE t_Unnamed_Client

withName(out) == IF out.name # <<>> THEN out ELSE [out EXCEPT !.name = derivedName(out)]

sanitizeRow(raw) == withName(sanitizeFields(rowMap(raw)))

\* the operation pushed for one sanitized row; g is the ObjectId counter
batchOp(doc, g) ==
  IF doc["_id"] # <<>>
  THEN [kind |-> "updateOne", filter |-> <<"_id", doc["_id"]>>, set |-> doc,
        setOnInsert |-> EmptyDoc, document |-> EmptyDoc]
  ELSE IF doc["email"] # <<>>
  THEN [kind |-> "updateOne", filter |-> <<"email", doc["email"]>>, set |-> doc,
        setOnInsert |-> EmptyDoc, document |-> EmptyDoc]
  ELSE [kind |-> "updateOne", filter |-> <<"_id", objectIdText(g)>>,
        set |-> SetField(doc, "_id", objectIdText(g)),
        setOnInsert |-> SetField(EmptyDoc, "_id", objectIdText(g)),
        document |-> EmptyDoc]

usesGenerated(doc) == doc["_id"] = <<>> /\ doc["email"] = <<>>

\* the loop over rows: acc is [ops, docs, gen, rowsProcessed, skipped]
batchRowStep(acc, doc, skipValidation) ==
  IF doc["name"] = <<>> /\ skipValidation
  THEN [acc EXCEPT !.skipped = @ + 1]
  ELSE [ops |-> Append(acc.ops, batchOp(doc, acc.gen)),
        docs |-> Append(acc.docs, doc),
        gen |-> IF usesGenerated(doc) THEN acc.gen + 1 ELSE acc.gen,
        rowsProcessed |-> acc.rowsProcessed + 1,
        skipped |-> acc.skipped]

RECURSIVE batchOps(_, _, _)
batchOps(rows, acc, skipValidation) ==
  IF rows = <<>> THEN acc
  ELSE batchOps(Tail(rows), batchRowStep(acc, sanitizeRow(Head(rows)), skipValidation),
                skipValidation)

\* execChunk after the bulk write of one chunk returned r
chunkStep(acc, r) ==
  [st |-> r.st,
   threw |-> r.threw,
   modifiedCount |-> acc.modifiedCount + (IF r.threw THEN 0 ELSE r.modifiedCount),
   upsertedCount |-> acc.upsertedCount
                       + (IF r.threw THEN 0 ELSE Cardinality(DOMAIN r.upsertedIds))]

\* a faulty loop: a chunk whose bulk write throws does not end it
RECURSIVE execChunksOn(_, _, _, _, _, _)
execChunksOn(ops, i, size, now, skips, acc) ==
  IF i > Len(ops) THEN acc
  ELSE execChunksOn(ops, i + size, size, now, skips,
         [chunkStep(acc, bulkWrite(acc.st, SubSeq(ops, i, Min(i + size - 1, Len(ops))),
                                   now, skips))
            EXCEPT !.threw = @ \/ acc.threw])

\* for (let i = 0; i < ops.length; i += chunkSize) await execChunk(...): a
\* chunk whose bulk write throws ends the loop
RECURSIVE execChunks(_, _, _, _, _, _)
execChunks(ops, i, size, now, skips, acc) ==
  IF i > Len(ops) \/ acc.threw THEN acc
  ELSE execChunks(ops, i + size, size, now, skips,
         chunkStep(acc, bulkWrite(acc.st, SubSeq(ops, i, Min(i + size - 1, Len(ops))),
                                  now, skips)))

(***************************************************************************)
(* State.                                                                  *)
(***************************************************************************)
VARIABLES
  store,         \* the Client collection
  gen,           \* the ObjectIds generated so far
  clock,         \* the requests started so far: the wall clock
  skipsInvalid,  \* whether the build's bulkWrite skips invalid operations
  phase,         \* "idle", or "pool" while importClients awaits its workers
  queue,         \* importClients: the payment tasks
  emailMap,      \* importClients: email -> _id of the rows to resolve
  qi,            \* importClients: the queue cursor
  wk,            \* importClients: the workers
  paymentAdded,  \* importClients: paymentAddedCount
  cur,           \* importClients: the counts computed before the pool starts
  resp,          \* the last response
  last,          \* history: the last request and the state it started from
  prev,          \* history: the request before it, its response, the store after it
  outcomes       \* history: what became of each payment task that reached the store

vars == <<store, gen, clock, skipsInvalid, phase, queue, emailMap, qi, wk,
          paymentAdded, cur, resp, last, prev, outcomes>>

\* the requests of one behaviour
MaxRequests == 2

\* the rows of one request
MaxRows == 2

RowSeqs(U) == UNION {[1..n -> U] : n \in 1..MaxRows}

NoResponse ==
  [kind |-> "none", status |-> 0, totalProcessed |-> 0, successful |-> 0, failed |-> 0,
   skipped |-> 0, created |-> 0, updated |-> 0, paymentAttempted |-> 0, paymentAdded |-> 0]

NoRequest ==
  [kind |-> "none", rows |-> <<>>, drafts |-> <<>>, ops |-> <<>>, before |-> <<>>,
   gen |-> 0, now |-> 0, batchSize |-> 0, skipInvalid |-> TRUE, skipValidation |-> TRUE,
   activityDocs |-> <<>>]

NoCounts ==
  [created |-> 0, updated |-> 0, successful |-> 0, attempted |-> 0, total |-> 0, skipped |-> 0]

AllIdle == [w \in 1..workers |-> IdleWorker]

Init ==
  /\ store = <<>>
  /\ gen = 1
  /\ clock = 0
  /\ skipsInvalid \in BOOLEAN
  /\ phase = "idle"
  /\ queue = <<>>
  /\ emailMap = EmptyDoc
  /\ qi = 0
  /\ wk = AllIdle
  /\ paymentAdded = 0
  /\ cur = NoCounts
  /\ resp = NoResponse
  /\ last = NoRequest
  /\ prev = [req |-> NoRequest, resp |-> NoResponse, after |-> <<>>]
  /\ outcomes = <<>>

(***************************************************************************)
(* importClients, from the request to the launch of the workers (or to the *)
(* 500 response when bulkWrite throws).                                    *)
(***************************************************************************)
ImportClientsWith(rows, skipInvalid) ==
  /\ phase = "idle"
  /\ clock < MaxRequests
  /\ \E now \in {nowAt(clock + 1)} :
     \E mapped \in {mapRows(rows)} :
     \E valid \in {validRowsOf(mapped)} :
     \E ops \in {csvOpsOf(valid, now)} :
     \E bulk \in {bulkWrite([coll |-> store, gen |-> gen], ops, now, skipsInvalid)} :
     \E pending \in {pendingByIndex(csvMetasOf(valid, mapped, now), bulk.insertedIds)} :
     \E eMap \in {emailMapOf(bulk.st.coll, pending)} :
     \E idle \in {[w \in DOMAIN wk |-> IdleWorker]} :
     \E started \in {launch(1, pending, eMap, 0, now, idle)} :
        /\ clock' = clock + 1
        /\ last' = [kind |-> "csv", rows |-> rows,
                    drafts |-> [i \in DOMAIN valid |-> valid[i].data],
                    ops |-> ops, before |-> store, gen |-> gen, now |-> now,
                    batchSize |-> 0, skipInvalid |-> skipInvalid, skipValidation |-> TRUE,
                    activityDocs |->
                      IF bulk.threw \/ (~skipInvalid /\ Len(valid) < Len(mapped)) THEN <<>>
                      ELSE activityDocsOf(csvMetasOf(valid, mapped, now), bulk)]
        /\ prev' = [req |-> last, resp |-> resp, after |-> store]
        /\ paymentAdded' = 0
        /\ IF ~skipInvalid /\ Len(valid) < Len(mapped)
           THEN /\ phase' = "idle"
                /\ store' = store /\ gen' = gen
                /\ resp' = [NoResponse EXCEPT !.kind = "csv", !.status = 400]
                /\ queue' = <<>> /\ emailMap' = EmptyDoc /\ qi' = 0 /\ wk' = idle
                /\ cur' = NoCounts
                /\ outcomes' = <<>>
           ELSE IF bulk.threw
           THEN /\ phase' = "idle"
                /\ store' = bulk.st.coll /\ gen' = bulk.st.gen
                /\ resp' = [NoResponse EXCEPT !.kind = "csv", !.status = 500]
                /\ queue' = <<>> /\ emailMap' = EmptyDoc /\ qi' = 0 /\ wk' = idle
                /\ cur' = NoCounts
                /\ outcomes' = <<>>
           ELSE /\ phase' = "pool"
                /\ store' = bulk.st.coll /\ gen' = bulk.st.gen
                /\ resp' = NoResponse
                /\ queue' = pending
                /\ emailMap' = eMap
                /\ qi' = started.qi
                /\ wk' = started.wk
                /\ cur' = [created |-> bulk.upsertedCount + bulk.insertedCount,
                           updated |-> bulk.matchedCount,
                           successful |-> bulk.insertedCount + bulk.upsertedCount
                                            + bulk.matchedCount,
                           attempted |-> Len(pending),
                           total |-> Len(mapped),
                           skipped |-> IF skipInvalid THEN Len(mapped) - Len(valid) ELSE 0]
                /\ outcomes' = [p \in DOMAIN pending |-> "none"]
  /\ UNCHANGED skipsInvalid

\* the request as it is sent without the skipInvalid option: 'true'
ImportClients(rows) == ImportClientsWith(rows, TRUE)

\* Client.findById(cid) resolves for worker w, which runs to its save (or, when
\* there is no such document, to its next await)
WorkerFind(w) ==
  /\ phase = "pool"
  /\ wk[w].pc = "find"
  /\ \E i \in {findById(store, wk[w].cid)} :
       IF i = 0
       THEN \E next \in {runOne(queue, emailMap, qi, nowAt(clock))} :
              /\ wk' = [wk EXCEPT ![w] = next.worker]
              /\ qi' = next.qi
              /\ outcomes' = [outcomes EXCEPT ![wk[w].pos] = "miss"]
       ELSE /\ wk' = [wk EXCEPT ![w] =
                        [pc |-> "save", pos |-> wk[w].pos, cid |-> store[i]["_id"],
                         tok |-> wk[w].tok,
                         delta |-> saveDelta(paymentMethodsOf(store[i]), versionOf(store[i]),
                                     addPaymentMethodList(paymentMethodsOf(store[i]),
                                                          wk[w].tok))]]
            /\ qi' = qi
            /\ outcomes' = outcomes
  /\ UNCHANGED <<store, gen, clock, skipsInvalid, phase, queue, emailMap,
                 paymentAdded, cur, resp, last, prev>>

\* the save of worker w reaches the store; the worker then counts it (or
\* swallows the error) and runs to its next await
WorkerSave(w) ==
  /\ phase = "pool"
  /\ wk[w].pc = "save"
  /\ \E r \in {saveDocument(store, wk[w].cid, wk[w].delta, nowAt(clock))} :
     \E next \in {runOne(queue, emailMap, qi, nowAt(clock))} :
        /\ store' = r.coll
        /\ paymentAdded' = IF r.threw THEN paymentAdded ELSE paymentAdded + 1
        /\ outcomes' = [outcomes EXCEPT ![wk[w].pos] =
                          IF r.coll # store THEN "saved" ELSE "failed"]
        /\ wk' = [wk EXCEPT ![w] = next.worker]
        /\ qi' = next.qi
  /\ UNCHANGED <<gen, clock, skipsInvalid, phase, queue, emailMap, cur, resp, last, prev>>

\* a faulty response: sent without awaiting the workers
RespondDetached ==
  /\ phase = "pool"
  /\ phase' = "idle"
  /\ resp' = [kind |-> "csv", status |-> 200,
              totalProcessed |-> cur.total, successful |-> cur.successful,
              failed |-> 0, skipped |-> cur.skipped,
              created |-> cur.created, updated |-> cur.updated,
              paymentAttempted |-> cur.attempted, paymentAdded |-> paymentAdded]
  /\ UNCHANGED <<store, gen, clock, skipsInvalid, queue, emailMap, qi, wk,
                 paymentAdded, cur, last, prev, outcomes>>

\* Promise.all resolved: the 200 response
Respond ==
  /\ phase = "pool"
  /\ \A w \in DOMAIN wk : wk[w].pc = "done"
  /\ phase' = "idle"
  /\ resp' = [kind |-> "csv", status |-> 200,
              totalProcessed |-> cur.total,
              successful |-> cur.successful,
              failed |-> 0,
              skipped |-> cur.skipped,
              created |-> cur.created,
              updated |-> cur.updated,
              paymentAttempted |-> cur.attempted,
              paymentAdded |-> paymentAdded]
  /\ UNCHANGED <<store, gen, clock, skipsInvalid, queue, emailMap, qi, wk,
                 paymentAdded, cur, last, prev, outcomes>>

\* the batchSize a request carries (0: none)
BatchSizes == 0..MaxChunk

(***************************************************************************)
(* importClientsBatch, from the request to its response.                   *)
(***************************************************************************)
ImportClientsBatchWith(rows, batchSize, skipValidation) ==
  /\ phase = "idle"
  /\ clock < MaxRequests
  /\ \E now \in {nowAt(clock + 1)} :
     \E built \in {batchOps(rows, [ops |-> <<>>, docs |-> <<>>, gen |-> gen,
                                   rowsProcessed |-> 0, skipped |-> 0],
                            skipValidation)} :
     \E done \in {execChunks(built.ops, 1, chunkSizeOf(batchSize), now, skipsInvalid,
                             [st |-> [coll |-> store, gen |-> built.gen], threw |-> FALSE,
                              modifiedCount |-> 0, upsertedCount |-> 0])} :
        /\ clock' = clock + 1
        /\ store' = done.st.coll
        /\ gen' = done.st.gen
        /\ last' = [kind |-> "batch", rows |-> rows, drafts |-> built.docs,
                    ops |-> built.ops, before |-> store, gen |-> built.gen, now |-> now,
                    batchSize |-> batchSize, skipInvalid |-> TRUE,
                    skipValidation |-> skipValidation, activityDocs |-> <<>>]
        /\ prev' = [req |-> last, resp |-> resp, after |-> store]
        /\ resp' = IF done.threw
                   THEN [NoResponse EXCEPT !.kind = "batch", !.status = 500]
                   ELSE [kind |-> "batch", status |-> 200,
                         totalProcessed |-> built.rowsProcessed,
                         successful |-> done.upsertedCount + done.modifiedCount,
                         failed |-> 0,
                         skipped |-> built.skipped,
                         created |-> done.upsertedCount,
                         updated |-> done.modifiedCount,
                         paymentAttempted |-> 0,
                         paymentAdded |-> 0]
  /\ UNCHANGED <<skipsInvalid, phase, queue, emailMap, qi, wk, paymentAdded, cur, outcomes>>

\* the request as it is sent without options: skipValidation is true
ImportClientsBatch(rows, batchSize) == ImportClientsBatchWith(rows, batchSize, TRUE)

\* the rows a CSV request is made of
CsvRows == {rowAda, rowEmailOnly, rowAnonymous}

\* the rows of the CSV requests that exercise the payment pool
PayRows == {rowAda, rowExpired, rowEmailCard, rowShortCard}

\* the rows a JSON request is made of
JsonRows == {jsonAda, jsonEmailOnly, jsonAnonymous}

Pool ==
  \/ \E w \in DOMAIN wk : WorkerFind(w)
  \/ \E w \in DOMAIN wk : WorkerSave(w)
  \/ Respond

NextCsv == (\E rows \in RowSeqs(CsvRows) : ImportClients(rows)) \/ Pool

NextPay == (\E rows \in RowSeqs(PayRows) : ImportClients(rows)) \/ Pool

NextBatch ==
  \E rows \in RowSeqs(JsonRows) : \E batchSize \in BatchSizes :
    ImportClientsBatch(rows, batchSize)

Next == NextCsv \/ NextBatch

\* both import paths
Spec == Init /\ [][Next]_vars

\* importClients alone
SpecCsv == Init /\ [][NextCsv]_vars

\* importClients on rows with cards
SpecPay == Init /\ [][NextPay]_vars

\* importClientsBatch alone
SpecBatch == Init /\ [][NextBatch]_vars

(***************************************************************************)
(* The payment-method operations on one client record, one call at a time. *)
(***************************************************************************)
\* the calls of one behaviour
MaxCalls == 4

\* the payment methods a record holds at most
MaxMethods == 3

\* the ids of payment methods
PmIds == {<<"p", "m", "1">>, <<"p", "m", "2">>}

\* a record with no payment methods
bareClient ==
  [_id |-> <<"A">>, name |-> <<"A", "d", "a">>, contactStatus |-> t_New_Prospect, __v |-> 0]

\* the data a caller passes to addPaymentMethod; cardNumber is '' unless the
\* caller passes raw card data
PmData ==
  [id : PmIds, brand : {t_visa}, last4 : {<<"4", "2", "4", "2">>}, expMonth : {9},
   expYear : {2019, 2026}, nameOnCard : {<<>>}, billingZip : {<<>>},
   isDefault : BOOLEAN, cardNumber : {<<>>, <<"4", "2", "4", "2">>}]

firstIndexOfId(list, id) ==
  IF \A i \in DOMAIN list : list[i].id # id THEN 0
  ELSE CHOOSE i \in DOMAIN list : list[i].id = id /\ \A j \in 1..(i - 1) : list[j].id # id

removeAt(list, i) == SubSeq(list, 1, i - 1) \o SubSeq(list, i + 1, Len(list))

\* removePaymentMethod up to its save, for an id the list holds at index
promoteFirst(rest, wasDefault) ==
  IF wasDefault /\ rest # <<>> THEN [rest EXCEPT ![1].isDefault = TRUE] ELSE rest

removePaymentMethodList(list, index) == promoteFirst(removeAt(list, index), list[index].isDefault)

\* setDefaultPaymentMethod up to its save, for an id the list holds at index
setDefaultPaymentMethodList(list, index) ==
  [i \in DOMAIN list |-> [list[i] EXCEPT !.isDefault = (i = index)]]

\* paymentController.addPaymentMethod up to its save: pm is what Stripe returned
controllerAddList(list, pm, isDefault) ==
  Append(IF isDefault \/ list = <<>>
         THEN [i \in DOMAIN list |-> [list[i] EXCEPT !.isDefault = FALSE]]
         ELSE list,
         [id |-> pm.id, brand |-> pm.brand, last4 |-> pm.last4, expMonth |-> pm.expMonth,
          expYear |-> pm.expYear, nameOnCard |-> pm.nameOnCard,
          billingZip |-> pm.billingZip, isDefault |-> isDefault \/ list = <<>>])

\* load the record, change its list to `changed`, save
saveList(changed) ==
  saveDocument(store, store[1]["_id"],
               saveDelta(paymentMethodsOf(store[1]), versionOf(store[1]), changed),
               nowAt(clock + 1))

PmFrame ==
  UNCHANGED <<gen, skipsInvalid, phase, queue, emailMap, qi, wk, paymentAdded, cur, resp,
              prev, outcomes>>

\* one call that changes the list to `changed` and saves, or (noSave) returns
\* or throws before its save
PmCall(kind, arg, noSave, changed) ==
  /\ clock < MaxCalls
  /\ clock' = clock + 1
  /\ \E r \in {IF noSave THEN [threw |-> TRUE, coll |-> store] ELSE saveList(changed)} :
       /\ store' = r.coll
       /\ last' = [kind |-> kind, arg |-> arg, before |-> paymentMethodsOf(store[1]),
                   saved |-> ~r.threw]
  /\ PmFrame

AddPaymentMethod(data) ==
  /\ Len(paymentMethodsOf(store[1])) < MaxMethods
  /\ PmCall("addPaymentMethod", data, data.cardNumber # <<>>,
            addPaymentMethodList(paymentMethodsOf(store[1]), data))

RemovePaymentMethod(id) ==
  \E index \in {firstIndexOfId(paymentMethodsOf(store[1]), id)} :
    PmCall("removePaymentMethod", id, index = 0,
           removePaymentMethodList(paymentMethodsOf(store[1]), index))

SetDefaultPaymentMethod(id) ==
  \E index \in {firstIndexOfId(paymentMethodsOf(store[1]), id)} :
    PmCall("setDefaultPaymentMethod", id, index = 0,
           setDefaultPaymentMethodList(paymentMethodsOf(store[1]), index))

ClearPaymentMethods ==
  /\ phase = "idle"
  /\ PmCall("clearPaymentMethods", <<>>, FALSE, <<>>)

ControllerAddPaymentMethod(pm) ==
  /\ Len(paymentMethodsOf(store[1])) < MaxMethods
  /\ pm.cardNumber = <<>>
  /\ pm.expYear >= 2020
  /\ PmCall("controller.addPaymentMethod", pm, FALSE,
            controllerAddList(paymentMethodsOf(store[1]), pm, pm.isDefault))

InitPM ==
  /\ store = <<bareClient>>
  /\ gen = 1
  /\ clock = 0
  /\ skipsInvalid = FALSE
  /\ phase = "idle"
  /\ queue = <<>>
  /\ emailMap = EmptyDoc
  /\ qi = 0
  /\ wk = AllIdle
  /\ paymentAdded = 0
  /\ cur = NoCounts
  /\ resp = NoResponse
  /\ last = [kind |-> "none", arg |-> <<>>, before |-> <<>>, saved |-> FALSE]
  /\ prev = [req |-> NoRequest, resp |-> NoResponse, after |-> <<>>]
  /\ outcomes = <<>>

NextPM ==
  \/ \E data \in PmData : AddPaymentMethod(data)
  \/ \E id \in PmIds : RemovePaymentMethod(id)
  \/ \E id \in PmIds : SetDefaultPaymentMethod(id)
  \/ ClearPaymentMethods
  \/ \E pm \in PmData : ControllerAddPaymentMethod(pm)

\* the payment-method operations, one call at a time
SpecPM == InitPM /\ [][NextPM]_vars

(***************************************************************************)
(* The status, note and update handlers of one client record, and the      *)
(* imports, in any order.                                                  *)
(***************************************************************************)
\* the requests of one behaviour that may be status, note or update requests
MaxOps == 3

\* req.userId of the authenticated caller
userId == <<"u", "1">>

HexChars == Range(DigitChars) \cup {"a", "b", "c", "d", "e", "f", "A", "B", "C", "D", "E", "F"}

\* express-validator isMongoId(): 24 hexadecimal digits
isMongoId(t) == Len(t) = 24 /\ \A i \in DOMAIN t : t[i] \in HexChars

statusHistoryOf(doc) == IF "statusHistory" \in DOMAIN doc THEN doc["statusHistory"] ELSE <<>>

interactionCountOf(doc) == IF "interactionCount" \in DOMAIN doc THEN doc["interactionCount"] ELSE 0

\* clientSchema.methods.addStatusChange on a loaded document
addStatusChange(doc, newStatus, changedBy, notes, now) ==
  SetField(SetField(doc, "statusHistory",
                    Append(statusHistoryOf(doc),
                           [status |-> newStatus, changedAt |-> now,
                            changedBy |-> changedBy, notes |-> notes])),
           "contactStatus", newStatus)

\* the validators of one statusHistory entry
historyEntryIsValid(e) == e.status \in Range(validStatuses) /\ e.changedBy # <<>>

historyIsValid(list) == \A i \in DOMAIN list : historyEntryIsValid(list[i])

\* await client.save() after addStatusChange on the document loaded from
\* position i: validation first; then $push of the new entry, $set of
\* contactStatus and updatedAt, and the version increment of an array push
saveStatusChange(coll, i, changed, now) ==
  IF ~docIsValid(changed) \/ ~historyIsValid(statusHistoryOf(changed))
     \/ ~listIsValid(paymentMethodsOf(changed))
  THEN [threw |-> TRUE, coll |-> coll]
  ELSE [threw |-> FALSE,
        coll |-> [coll EXCEPT ![i] =
                    SetField(SetField(SetField(SetField(coll[i], "statusHistory",
                                   Append(statusHistoryOf(coll[i]),
                                          changed["statusHistory"][Len(changed["statusHistory"])])),
                                   "contactStatus", changed["contactStatus"]),
                             "__v", versionOf(coll[i]) + 1),
                             "updatedAt", now)]]

\* what a handler leaves alone when it only reads and writes the collection
StatusFrame ==
  UNCHANGED <<gen, skipsInvalid, phase, queue, emailMap, qi, wk, paymentAdded, cur, last,
              prev, outcomes>>

Replied(kind, status) == [NoResponse EXCEPT !.kind = kind, !.status = status]

(***************************************************************************)
(* PUT /api/clients/:id/status                                             *)
(***************************************************************************)
UpdateClientStatus(id, status, notes) ==
  /\ clock < MaxOps
  /\ clock' = clock + 1
  /\ \E now \in {nowAt(clock + 1)} :
     \E i \in {findById(store, id)} :
       IF status \notin Range(validStatuses)
       THEN store' = store /\ resp' = Replied("updateClientStatus", 400)
       ELSE IF i = 0
       THEN store' = store /\ resp' = Replied("updateClientStatus", 404)
       ELSE \E r \in {saveStatusChange(store, i,
                        addStatusChange(store[i], status, userId, notes, now), now)} :
              /\ store' = r.coll
              /\ resp' = Replied("updateClientStatus", IF r.threw THEN 500 ELSE 200)
  /\ StatusFrame

(***************************************************************************)
(* POST /api/clients/bulk/status: every client is loaded, changed and      *)
(* saved on its own; a save that rejects is that client's failure.         *)
(***************************************************************************)
RECURSIVE moveEach(_, _, _, _, _, _)
moveEach(coll, clientIds, k, newStatus, notes, now) ==
  IF k > Len(clientIds) THEN coll
  ELSE LET i == findById(coll, clientIds[k])
       IN moveEach(IF i = 0 THEN coll
                   ELSE saveStatusChange(coll, i,
                          addStatusChange(coll[i], newStatus, userId, notes, now), now).coll,
                   clientIds, k + 1, newStatus, notes, now)

BulkMoveStatus(clientIds, newStatus, notes) ==
  /\ clock < MaxOps
  /\ clock' = clock + 1
  /\ IF clientIds = <<>> \/ (\E k \in DOMAIN clientIds : ~isMongoId(clientIds[k]))
        \/ newStatus \notin Range(validStatuses)
     THEN store' = store /\ resp' = Replied("bulkMoveStatus", 400)
     ELSE /\ store' = moveEach(store, clientIds, 1, newStatus, notes, nowAt(clock + 1))
          /\ resp' = Replied("bulkMoveStatus", 200)
  /\ StatusFrame

(***************************************************************************)
(* POST /api/clients/:id/notes                                             *)
(***************************************************************************)
AddClientNote(id, note) ==
  /\ clock < MaxOps
  /\ clock' = clock + 1
  /\ \E now \in {nowAt(clock + 1)} :
     \E i \in {findById(store, id)} :
       IF trim(note) = <<>>
       THEN store' = store /\ resp' = Replied("addClientNote", 400)
       ELSE IF i = 0
       THEN store' = store /\ resp' = Replied("addClientNote", 404)
       ELSE IF ~docIsValid(store[i]) \/ ~historyIsValid(statusHistoryOf(store[i]))
               \/ ~listIsValid(paymentMethodsOf(store[i]))
       THEN store' = store /\ resp' = Replied("addClientNote", 500)
       ELSE /\ store' = [store EXCEPT ![i] =
                           SetField(SetField(SetField(store[i], "lastNote", trim(note)),
                                             "interactionCount",
                                             interactionCountOf(store[i]) + 1),
                                    "updatedAt", now)]
            /\ resp' = Replied("addClientNote", 200)
  /\ StatusFrame

(***************************************************************************)
(* PUT /api/clients/:id.  The body is a sequence of entries, one per own   *)
(* property of req.body in order.  An entry [op, path, at, field, value]   *)
(* is the property named                                                   *)
(*     path               when op = "" and at = NoIndex,                   *)
(*     path.at.field      when op = "" and at >= 0   (a dotted name),      *)
(*     $set               when op = "$set", holding { path: value } or     *)
(*                        { path.at.field: value }.                        *)
(***************************************************************************)
NoIndex == 0 - 1

Plain(path, value) == [op |-> "", path |-> path, at |-> NoIndex, field |-> "", value |-> value]

Dotted(path, at, field, value) ==
  [op |-> "", path |-> path, at |-> at, field |-> field, value |-> value]

SetOp(path, value) ==
  [op |-> "$set", path |-> path, at |-> NoIndex, field |-> "", value |-> value]

\* the property names updateClient deletes from its copy of the body
protectedKeys == {"_id", "createdAt", "updatedAt", "statusHistory"}

rawCardKeys == {"ccNumber", "ccExp", "ccCvv", "nameOnCard", "billingZip"}

\* whether the entry is the own property named key
isProperty(e, key) == e.op = "" /\ e.at = NoIndex /\ e.path = key

keepsEntry(e) == \A key \in protectedKeys \cup rawCardKeys : ~isProperty(e, key)

\* updates after the deletes
updatesOf(body) == SelectSeq(body, keepsEntry)

\* typeof updates.key === 'string' ? updates.key : undefined, '' for undefined
rawOf(body, key) ==
  IF \E k \in DOMAIN body : isProperty(body[k], key)
  THEN body[CHOOSE k \in DOMAIN body : isProperty(body[k], key)].value
  ELSE <<>>

\* one $set entry applied to a document: a schema path is replaced; a dotted
\* path into statusHistory replaces the field of the entry at that position
setEntry(doc, e) ==
  IF e.path \notin schemaPaths THEN doc
  ELSE IF e.at = NoIndex THEN SetField(doc, e.path, e.value)
  ELSE IF e.path = "statusHistory" /\ e.field \in {"status", "notes"}
          /\ e.at + 1 \in DOMAIN statusHistoryOf(doc)
  THEN SetField(doc, "statusHistory",
                [statusHistoryOf(doc) EXCEPT ![e.at + 1] =
                   [statusHistoryOf(doc)[e.at + 1] EXCEPT ![e.field] = e.value]])
  ELSE doc

RECURSIVE setEntries(_, _, _)
setEntries(doc, updates, k) ==
  IF k > Len(updates) THEN doc ELSE setEntries(setEntry(doc, updates[k]), updates, k + 1)

\* runValidators: the validators of the paths the update sets
updateIsValid(updates) ==
  \A k \in DOMAIN updates :
    /\ (updates[k].path = "name" /\ updates[k].at = NoIndex) => trim(updates[k].value) # <<>>
    /\ (updates[k].path = "contactStatus" /\ updates[k].at = NoIndex) =>
         updates[k].value \in Range(validStatuses)
    /\ (updates[k].path = "statusHistory" /\ updates[k].at = NoIndex) =>
         historyIsValid(updates[k].value)
    /\ (updates[k].path = "statusHistory" /\ updates[k].field = "status") =>
         updates[k].value \in Range(validStatuses)

\* Client.findByIdAndUpdate(id, updates, { new: true, runValidators: true }):
\* Mongoose moves every property that is not an operator into $set, casts it
\* by the schema and adds updatedAt
findByIdAndUpdate(coll, id, updates, now) ==
  LET i == findById(coll, id)
  IN IF ~updateIsValid(updates) THEN [threw |-> TRUE, found |-> FALSE, coll |-> coll]
     ELSE IF i = 0 THEN [threw |-> FALSE, found |-> FALSE, coll |-> coll]
     ELSE [threw |-> FALSE, found |-> TRUE,
           coll |-> [coll EXCEPT ![i] =
                       SetField(setEntries(coll[i], updates, 1), "updatedAt", now)]]

t_manual_ == <<"m", "a", "n", "u", "a", "l", "_">>

\* /^(\d{2})\/(\d{2})$/
isMMYY(t) ==
  Len(t) = 5 /\ IsDigit(t[1]) /\ IsDigit(t[2]) /\ t[3] = "/" /\ IsDigit(t[4]) /\ IsDigit(t[5])

\* /^\d{3,4}$/
isCvv(t) == Len(t) \in 3..4 /\ AllDigits(t)

\* Math.floor(new Date().getFullYear() / 100) * 100
currentCentury(now) == ((now \div 10000) \div 100) * 100

\* the payment branch of updateClient up to the reload of the client:
\* status 0 where the handler goes on to addPaymentMethod
manualToken(body, now) ==
  LET digits == digitsOnly(rawOf(body, "ccNumber"))
      exp == rawOf(body, "ccExp")
      cvv == rawOf(body, "ccCvv")
  IN IF digits = <<>> \/ Len(digits) < 13 \/ Len(digits) > 19 THEN [status |-> 400]
     ELSE IF ~isMMYY(exp) THEN [status |-> 400]
     ELSE IF cvv # <<>> /\ ~isCvv(cvv) THEN [status |-> 400]
     ELSE [status |-> 0,
           id |-> t_manual_ \o detectBrand(digits) \o <<"_">> \o sliceLast(digits, 4)
                    \o <<"_">> \o toText(now),
           brand |-> detectBrand(digits),
           last4 |-> sliceLast(digits, 4),
           expMonth |-> Min(12, Max(1, parseDigits(SubSeq(exp, 1, 2)))),
           expYear |-> currentCentury(now) + parseDigits(SubSeq(exp, 4, 5)),
           nameOnCard |-> rawOf(body, "nameOnCard"),
           billingZip |-> rawOf(body, "billingZip"),
           isDefault |-> TRUE]

hasAnyPaymentInput(body) == \E key \in rawCardKeys : rawOf(body, key) # <<>>

UpdateClient(id, body) ==
  /\ clock < MaxOps
  /\ clock' = clock + 1
  /\ \E now \in {nowAt(clock + 1)} :
     \E u \in {findByIdAndUpdate(store, id, updatesOf(body), now)} :
       IF u.threw THEN store' = store /\ resp' = Replied("updateClient", 500)
       ELSE IF ~u.found THEN store' = store /\ resp' = Replied("updateClient", 404)
       ELSE IF ~hasAnyPaymentInput(body)
       THEN store' = u.coll /\ resp' = Replied("updateClient", 200)
       ELSE \E tok \in {manualToken(body, now)} :
              IF tok.status # 0
              THEN store' = u.coll /\ resp' = Replied("updateClient", tok.status)
              ELSE \E i \in {findById(u.coll, id)} :
                   \E r \in {saveDocument(u.coll, u.coll[i]["_id"],
                               saveDelta(paymentMethodsOf(u.coll[i]), versionOf(u.coll[i]),
                                         addPaymentMethodList(paymentMethodsOf(u.coll[i]), tok)),
                               now)} :
                     /\ store' = r.coll
                     /\ resp' = Replied("updateClient", IF r.threw THEN 500 ELSE 200)
  /\ StatusFrame

(***************************************************************************)
(* POST /api/clients: the client is saved first, the card fields of the    *)
(* body are checked afterwards.                                            *)
(***************************************************************************)
\* the property names createClient deletes from its copy of the body
createCardKeys ==
  {"ccNumber", "cardNumber", "ccExp", "expirationDate", "ccCvv", "securityCode",
   "nameOnCard", "billingZip"}

\* clientData.a || clientData.b
rawEither(body, a, b) == IF rawOf(body, a) # <<>> THEN rawOf(body, a) ELSE rawOf(body, b)

\* /^(\d{1,2})[\/\-](\d{2,4})$/: the position of the separator, 0 for no match
expirySplit(t) ==
  LET hits == {p \in {2, 3} :
                 /\ p < Len(t) /\ t[p] \in {"/", "-"}
                 /\ AllDigits(SubSeq(t, 1, p - 1))
                 /\ Len(t) - p \in 2..4 /\ AllDigits(SubSeq(t, p + 1, Len(t)))}
  IN IF hits = {} THEN 0 ELSE CHOOSE p \in hits : TRUE

\* the payment branch of createClient up to the reload of the client:
\* status 0 where the handler goes on to addPaymentMethod
createToken(body, now) ==
  LET digits == digitsOnly(rawEither(body, "ccNumber", "cardNumber"))
      exp == rawEither(body, "ccExp", "expirationDate")
      cvv == rawEither(body, "ccCvv", "securityCode")
      p == expirySplit(exp)
      yy == SubSeq(exp, p + 1, Len(exp))
      token == [status |-> 0,
                id |-> t_manual_ \o detectBrand(digits) \o <<"_">> \o sliceLast(digits, 4)
                         \o <<"_">> \o toText(now),
                brand |-> detectBrand(digits),
                last4 |-> sliceLast(digits, 4),
                nameOnCard |-> rawOf(body, "nameOnCard"),
                billingZip |-> rawOf(body, "billingZip"),
                isDefault |-> TRUE]
  IN IF digits = <<>> \/ Len(digits) < 13 \/ Len(digits) > 19 THEN [status |-> 400]
     ELSE IF ~isMMYY(exp) /\ p = 0 THEN [status |-> 400]
     ELSE IF cvv # <<>> /\ ~isCvv(cvv) THEN [status |-> 400]
     ELSE IF isMMYY(exp)
     THEN token @@ [expMonth |-> Min(12, Max(1, parseDigits(SubSeq(exp, 1, 2)))),
                    expYear |-> currentCentury(now) + parseDigits(SubSeq(exp, 4, 5))]
     ELSE token @@ [expMonth |-> Min(12, Max(1, parseDigits(SubSeq(exp, 1, p - 1)))),
                    expYear |-> IF Len(yy) = 2 THEN 2000 + parseDigits(yy)
                                ELSE parseDigits(yy)]

\* new Client(clientData) for the body without its card fields
newClient(body, now) ==
  LET kept == SelectSeq(body, LAMBDA e : \A key \in createCardKeys : ~isProperty(e, key))
      given == castBySchema(setEntries(EmptyDoc, kept, 1))
      withStatus == IF "contactStatus" \in DOMAIN given THEN given
                    ELSE SetField(given, "contactStatus", t_New_Prospect)
  IN SetField(SetField(SetField(withStatus, "createdAt", now), "updatedAt", now), "__v", 0)

CreateClient(body) ==
  /\ clock < MaxOps
  /\ clock' = clock + 1
  /\ \E now \in {nowAt(clock + 1)} :
     \E client \in {newClient(body, now)} :
       IF ~Has(client, "_id") \/ ~docIsValid(client)
          \/ findOneIndex(store, "_id", Get(client, "_id")) > 0
       THEN store' = store /\ resp' = Replied("createClient", 500)
       ELSE \E saved \in {Append(store, client)} :
            IF \A key \in createCardKeys : rawOf(body, key) = <<>>
            THEN store' = saved /\ resp' = Replied("createClient", 201)
            ELSE \E tok \in {createToken(body, now)} :
                   IF tok.status # 0
                   THEN store' = saved /\ resp' = Replied("createClient", tok.status)
                   ELSE \E r \in {saveDocument(saved, client["_id"],
                                     saveDelta(paymentMethodsOf(client), versionOf(client),
                                               addPaymentMethodList(paymentMethodsOf(client), tok)),
                                     now)} :
                          /\ store' = r.coll
                          /\ resp' = Replied("createClient", IF r.threw THEN 400 ELSE 201)
  /\ StatusFrame

\* the bodies of the create requests: a client with a card whose security
\* code has two digits, and the same client with a valid card
CreateBodies ==
  { <<Plain("_id", <<"N">>), Plain("name", <<"N", "e", "d">>),
      Plain("ccNumber", rowAda[6][2]), Plain("ccExp", rowAda[7][2]),
      Plain("ccCvv", <<"1", "2">>)>>,
    <<Plain("_id", <<"N">>), Plain("name", <<"N", "e", "d">>),
      Plain("cardNumber", rowAda[6][2]), Plain("expirationDate", rowBadCode[4][2]),
      Plain("securityCode", rowAda[8][2])>> }

\* the ids the requests name: two records the imports create, and no record
StatusIds == {rowAda[1][2], rowHex[1][2], <<"Z">>}

StatusValues == {validStatuses[7], <<"h", "o", "t">>}

StatusNotes == {<<>>, <<"o", "k">>}

UpdateBodies ==
  { <<Plain("name", <<"E", "v", "e">>)>>,
    <<Plain("contactStatus", validStatuses[1])>>,
    <<Plain("statusHistory", <<>>), Plain("name", <<"E", "v", "e">>)>>,
    <<Dotted("statusHistory", 0, "notes", <<"x">>)>>,
    <<SetOp("statusHistory", <<>>)>>,
    <<Plain("ccNumber", rowAda[6][2]), Plain("ccExp", rowAda[7][2]),
      Plain("ccCvv", rowAda[8][2])>>,
    <<Plain("ccNumber", rowAda[6][2]), Plain("ccExp", rowAda[7][2]),
      Plain("ccCvv", <<"1", "2">>)>>,
    <<Plain("name", <<"E", "v", "e">>), Plain("ccNumber", rowAda[6][2]),
      Plain("ccExp", rowAda[7][2]), Plain("ccCvv", <<"1", "2">>)>> }

StatusRows == {rowAda, rowHex}

NextStatus ==
  \/ \E rows \in RowSeqs(StatusRows) : ImportClients(rows)
  \/ Pool
  \/ \E rows \in RowSeqs({jsonAda}), batchSize \in {DefaultChunk} :
       ImportClientsBatch(rows, batchSize)
  \/ \E id \in StatusIds, status \in StatusValues, notes \in StatusNotes :
       UpdateClientStatus(id, status, notes)
  \/ \E clientIds \in RowSeqs(StatusIds), newStatus \in StatusValues :
       BulkMoveStatus(clientIds, newStatus, <<>>)
  \/ \E id \in StatusIds, body \in UpdateBodies : UpdateClient(id, body)
  \/ \E id \in StatusIds, note \in {<<"h", "i">>, <<" ">>} : AddClientNote(id, note)
  \/ \E body \in CreateBodies : CreateClient(body)

\* the status, note and update requests and the imports, in any order
SpecStatus == Init /\ [][NextStatus]_vars

\* C15: the statusHistory of every record only grows by appending: after any
\* request, the entries a record held are still there, unchanged and in the
\* same order, at the head of its statusHistory.
C15_StatusHistoryAppendOnly ==
  [][\A i \in DOMAIN store :
       /\ Len(statusHistoryOf(store'[i])) >= Len(statusHistoryOf(store[i]))
       /\ SubSeq(statusHistoryOf(store'[i]), 1, Len(statusHistoryOf(store[i])))
            = statusHistoryOf(store[i])]_vars

(***************************************************************************)
(* Properties.                                                             *)
(***************************************************************************)
\* a request has been answered and no other is running
Answered == phase = "idle" /\ last.kind \in {"csv", "batch"}

\* the text fields of a stored document
textFields(doc) == DOMAIN doc \ {"createdAt", "updatedAt", "__v", "paymentMethods"}

\* the letters of the header spellings of a card number and of a security code
cardNumberKeys ==
  {<<"c","c","n","u","m","b","e","r">>, <<"c","a","r","d","n","u","m","b","e","r">>}

securityCodeKeys ==
  {<<"s","e","c","u","r","i","t","y","c","o","d","e">>, <<"c","c","c","v","v">>,
   <<"c","v","v">>}

cellsOf(rows) == UNION {Range(rows[r]) : r \in DOMAIN rows}

\* the card numbers of more than 4 digits and the security codes that rows carry
cardNumbersOf(rows) ==
  {n \in {digitsOnly(c[2]) : c \in {x \in cellsOf(rows) :
                                      headerKeyOf(x[1]) \in cardNumberKeys}} : Len(n) > 4}

securityCodesOf(rows) ==
  {trim(c[2]) : c \in {x \in cellsOf(rows) : headerKeyOf(x[1]) \in securityCodeKeys}}
    \ {<<>>}

\* C1: after either import has processed rows with card-number or
\* security-code columns, in any header spelling, no field of a stored record
\* holds the digits of a card number of those rows, and none holds a security
\* code of those rows.
C1_NoRawCardData ==
  Answered =>
    \A i \in DOMAIN store : \A f \in textFields(store[i]) :
      /\ digitsOnly(store[i][f]) \notin cardNumbersOf(last.rows)
      /\ store[i][f] \notin securityCodesOf(last.rows)

\* the rows of a file are told apart by their ids, and a row without an id by
\* a valid email no other row carries
DistinctIdentities(drafts) ==
  \A i \in DOMAIN drafts :
    /\ Has(drafts[i], "_id") \/ Has(drafts[i], "email")
    /\ \A j \in DOMAIN drafts \ {i} :
         /\ Has(drafts[i], "_id") /\ Has(drafts[j], "_id")
              => drafts[i]["_id"] # drafts[j]["_id"]
         /\ ~Has(drafts[i], "_id") => drafts[i]["email"] # Get(drafts[j], "email")

\* the collection holds none of the rows
HoldsNone(coll, drafts) ==
  \A i \in DOMAIN drafts :
    IF Has(drafts[i], "_id")
    THEN findOneIndex(coll, "_id", drafts[i]["_id"]) = 0
    ELSE findOneIndex(coll, "email", drafts[i]["email"]) = 0

\* a CSV of rows with distinct identities was imported into a store that held
\* none of them
FirstImport == Answered /\ last.kind = "csv" /\ Len(last.drafts) = Len(last.rows)
               /\ DistinctIdentities(last.drafts) /\ HoldsNone(last.before, last.drafts)

\* the same file was imported twice in a row, the first time as a FirstImport
RepeatedImport ==
  /\ Answered /\ last.kind = "csv" /\ prev.req.kind = "csv"
  /\ prev.req.rows = last.rows
  /\ DistinctIdentities(last.drafts) /\ HoldsNone(prev.req.before, last.drafts)

\* C2: a CSV of N rows with distinct identities, imported by importClients
\* into a store that holds none of them, reports created = N and updated = 0;
\* the same file imported again at once reports created = 0 and updated = N,
\* and the store has gained exactly N records.
C2_ReimportIsIdempotent ==
  /\ FirstImport =>
       /\ resp.status = 200
       /\ resp.created = Len(last.rows) /\ resp.updated = 0
       /\ Len(store) = Len(last.before) + Len(last.rows)
  /\ RepeatedImport =>
       /\ prev.resp.status = 200
       /\ prev.resp.created = Len(last.rows) /\ prev.resp.updated = 0
       /\ resp.status = 200
       /\ resp.created = 0 /\ resp.updated = Len(last.rows)
       /\ Len(store) = Len(prev.req.before) + Len(last.rows)

\* a two-row file was imported twice in a row
C2_Witness == RepeatedImport /\ Len(last.rows) = 2 /\ resp.updated = 2

\* the number of default entries of a list of payment methods
defaultsOf(list) == Cardinality({i \in DOMAIN list : list[i].isDefault})

\* C3: after any sequence of addPaymentMethod, removePaymentMethod,
\* setDefaultPaymentMethod and clearPaymentMethods calls made one at a time on
\* a record that started without payment methods, exactly one entry is the
\* default when the list is not empty and none is when it is empty; an entry
\* added with isDefault = true is that default and every earlier entry is not.
C3_ExactlyOneDefault ==
  \A i \in DOMAIN store :
    /\ defaultsOf(paymentMethodsOf(store[i]))
         = (IF paymentMethodsOf(store[i]) = <<>> THEN 0 ELSE 1)
    /\ (last.kind = "addPaymentMethod" /\ last.saved /\ last.arg.isDefault) =>
         /\ Len(paymentMethodsOf(store[i])) = Len(last.before) + 1
         /\ \A k \in DOMAIN paymentMethodsOf(store[i]) :
              paymentMethodsOf(store[i])[k].isDefault
                <=> (k = Len(paymentMethodsOf(store[i])))
         /\ paymentMethodsOf(store[i])[Len(last.before) + 1].id = last.arg.id

\* an entry was added as the default to a record that had a default entry
C3_Witness ==
  /\ last.kind = "addPaymentMethod" /\ last.saved /\ last.arg.isDefault
  /\ defaultsOf(last.before) = 1
  /\ Len(paymentMethodsOf(store[1])) = 3

\* C4: whatever the interleaving of the loads and saves of two attachment
\* workers on one client record, the stored record never has more than one
\* default entry.
C4_AtMostOneDefault ==
  \A i \in DOMAIN store : defaultsOf(paymentMethodsOf(store[i])) <= 1

\* the operation is not rejected when it is the only one sent
acceptedAlone(op) ==
  op.kind = "updateOne" /\ execOp([coll |-> last.before, gen |-> last.gen], op, last.now).outcome # "error"

\* the document an updateOne is about is in the store
isWritten(op) == findOneIndex(store, op.filter[1], op.filter[2]) > 0

\* C5: the bulk write of both imports is unordered: when the store rejects
\* the operation of one row, the request still ends with a 200 summary and
\* every other row of the request, in its chunk and in the later chunks, is
\* written.
C5_RejectedRowIsIsolated ==
  Answered =>
    /\ resp.status = 200
    /\ \A i \in DOMAIN last.ops : acceptedAlone(last.ops[i]) => isWritten(last.ops[i])

\* what importClientsBatch does to the store of the last request with batchSize b
withBatchSize(b) ==
  execChunks(last.ops, 1, chunkSizeOf(b), last.now, skipsInvalid,
             [st |-> [coll |-> last.before, gen |-> last.gen], threw |-> FALSE,
              modifiedCount |-> 0, upsertedCount |-> 0])

\* C6: for the rows of a request, every batchSize gives importClientsBatch
\* the same created and updated counts and the same final store.
C6_BatchSizeIndependent ==
  (Answered /\ last.kind = "batch") =>
    \A b \in BatchSizes :
      /\ withBatchSize(b).st.coll = store
      /\ withBatchSize(b).threw <=> (resp.status = 500)
      /\ ~withBatchSize(b).threw =>
           /\ withBatchSize(b).upsertedCount = resp.created
           /\ withBatchSize(b).modifiedCount = resp.updated

\* the rows of the last request that carry neither an id nor an email
anonymousRows == {i \in DOMAIN last.drafts : ~Has(last.drafts[i], "_id") /\ ~Has(last.drafts[i], "email")}

\* C7: no row of either import is dropped, a row without any name included,
\* and the name stored for it is not empty.
C7_RowKeptWithName ==
  Answered =>
    /\ Len(last.drafts) = Len(last.rows)
    /\ \A i \in DOMAIN store : Has(store[i], "name")
    /\ \A i \in DOMAIN last.drafts :
         /\ Has(last.drafts[i], "_id") =>
              findOneIndex(store, "_id", last.drafts[i]["_id"]) > 0
         /\ (~Has(last.drafts[i], "_id") /\ Has(last.drafts[i], "email")) =>
              findOneIndex(store, "email", last.drafts[i]["email"]) > 0
    /\ Len(store) >= Len(last.before) + Cardinality(anonymousRows)

\* the operation inserts a document under an id of its own that is in the store
insertsUnderNewId(op) ==
  LET id == IF op.kind = "insertOne" THEN Get(op.document, "_id") ELSE op.filter[2]
  IN /\ op.kind = "insertOne" \/ op.filter[1] = "_id"
     /\ id # <<>>
     /\ findOneIndex(last.before, "_id", id) = 0
     /\ findOneIndex(store, "_id", id) > 0

\* C8: in both imports a row with an id is an upsert filtered on that id, also
\* when it has an email; a row with an email only is an upsert filtered on the
\* email; any other row gets a new unique id and is inserted.
C8_WriteShape ==
  Answered =>
    \A i \in DOMAIN last.drafts :
      IF Has(last.drafts[i], "_id")
      THEN /\ last.ops[i].kind = "updateOne"
           /\ last.ops[i].filter = <<"_id", last.drafts[i]["_id"]>>
      ELSE IF Has(last.drafts[i], "email")
      THEN /\ last.ops[i].kind = "updateOne"
           /\ last.ops[i].filter = <<"email", last.drafts[i]["email"]>>
      ELSE insertsUnderNewId(last.ops[i])

\* the createdAt hint of a row, parsed (NoDate when it has none or it does not parse)
hintOf(draft) ==
  IF "createdAt" \in DOMAIN draft THEN draft["createdAt"]
  ELSE parseDate(Get(draft, "createdAtText"))

\* the rows of the last request that the document created at position k is for
rowsFor(k) ==
  {i \in DOMAIN last.drafts :
     IF Has(last.drafts[i], "_id") THEN last.drafts[i]["_id"] = store[k]["_id"]
     ELSE Has(last.drafts[i], "email") /\ last.drafts[i]["email"] = Get(store[k], "email")}

\* C9: a row that matches a stored record leaves its createdAt as it was; a
\* row that creates a record sets createdAt to the row's hint when the hint
\* parses as a date, and to the time of the operation when it does not.
C9_CreatedAt ==
  Answered =>
    /\ \A k \in DOMAIN last.before : store[k]["createdAt"] = last.before[k]["createdAt"]
    /\ \A k \in (Len(last.before) + 1)..Len(store) :
         \A i \in rowsFor(k) :
           (\A j \in rowsFor(k) : i <= j) =>
             store[k]["createdAt"]
               = (IF hintOf(last.drafts[i]) # NoDate THEN hintOf(last.drafts[i])
                  ELSE last.now)

\* the rows of the last request that carry a non-blank payment column
rowsWithPayment ==
  {i \in DOMAIN last.rows :
     \E c \in DOMAIN last.rows[i] :
       /\ normalizeHeader(last.rows[i][c][1]) \in sensitiveNormalized
       /\ trim(last.rows[i][c][2]) # <<>>}

\* the task can be attempted: its card tokenizes and its client is resolved
attemptable(item) ==
  /\ tokenize(item.pr, last.now).ok
  /\ item.clientId # <<>> \/ item.email \in DOMAIN emailMap

\* C10: in importClients a task that fails (no such client, a save that
\* throws) or is skipped does not keep any other task from being attempted;
\* when the pool is done paymentAdded is the number of tasks whose save
\* succeeded, paymentAttempted is the number of rows with payment data, and
\* paymentAdded <= paymentAttempted.
C10_TasksAreIsolated ==
  (Answered /\ last.kind = "csv" /\ resp.status = 200) =>
    /\ \A p \in DOMAIN queue : attemptable(queue[p]) => outcomes[p] # "none"
    /\ resp.paymentAdded = Cardinality({p \in DOMAIN outcomes : outcomes[p] = "saved"})
    /\ resp.paymentAttempted = Cardinality(rowsWithPayment)
    /\ resp.paymentAdded <= resp.paymentAttempted

\* the pool is done with a task whose save threw before a task that was saved
C10_Witness ==
  /\ Answered /\ last.kind = "csv" /\ resp.status = 200
  /\ \E p, q \in DOMAIN outcomes :
       p < q /\ outcomes[p] = "failed" /\ outcomes[q] = "saved"
  /\ resp.paymentAdded = 1 /\ resp.paymentAttempted = 2

(***************************************************************************)
(* The worker pool under fair scheduling, and a pool scaled down so that   *)
(* the queue is longer than the pool.                                      *)
(***************************************************************************)
\* importClients on rows with cards; an awaited store call always returns
SpecPayFair == SpecPay /\ WF_vars(Pool)

\* the workers of the scaled-down pool
SmallPool == 2

\* the rows of a request to the scaled-down pool
SmallQueue == 3

InitPool ==
  /\ store = <<>>
  /\ gen = 1
  /\ clock = 0
  /\ skipsInvalid \in BOOLEAN
  /\ phase = "idle"
  /\ queue = <<>>
  /\ emailMap = EmptyDoc
  /\ qi = 0
  /\ wk = [w \in 1..SmallPool |-> IdleWorker]
  /\ paymentAdded = 0
  /\ cur = NoCounts
  /\ resp = NoResponse
  /\ last = NoRequest
  /\ prev = [req |-> NoRequest, resp |-> NoResponse, after |-> <<>>]
  /\ outcomes = <<>>

PoolRows == {rowAda, rowEmailCard, rowExpired}

NextPool == (\E rows \in [1..SmallQueue -> PoolRows] : ImportClients(rows)) \/ Pool

\* importClients with more payment tasks than workers
SpecPool == InitPool /\ [][NextPool]_vars

\* the workers that are between two awaits of a task
busy == {w \in DOMAIN wk : wk[w].pc # "done"}

\* importClients has sent its 200 summary
Summarized == phase = "idle" /\ resp.kind = "csv" /\ resp.status = 200

\* C11: importClients sends its 200 response only after every queued
\* payment task has completed or been skipped: once the pool is started all
\* its workers end and the response follows, at the response no worker is
\* busy and the cursor is past the queue, and while no request is running
\* no record's payment methods change.
C11_ResponseAfterPool ==
  /\ [](Summarized => (busy = {} /\ qi >= Len(queue)
                        /\ \A p \in DOMAIN queue : attemptable(queue[p]) => outcomes[p] # "none"))
  /\ (phase = "pool") ~> Summarized
  /\ [][phase = "idle" /\ phase' = "idle" =>
          \A i \in DOMAIN store :
            paymentMethodsOf(store'[i]) = paymentMethodsOf(store[i])]_vars

\* the response was sent after two tasks were saved
C11_Witness == Summarized /\ Len(queue) = 2 /\ resp.paymentAdded = 2

\* the record the write of the row of a payment task created or updated (0: none)
targetOf(item) ==
  IF item.clientId # <<>> THEN findOneIndex(store, "_id", item.clientId)
  ELSE IF item.email # <<>> THEN findOneIndex(store, "email", item.email)
  ELSE 0

\* the record holds the entry made of the token
holdsEntry(doc, tok) ==
  \E k \in DOMAIN paymentMethodsOf(doc) : paymentMethodsOf(doc)[k].id = tok.id

\* C12: for every row of importClients with payment data whose card
\* tokenizes and whose save is not refused, the entry is attached to the record
\* that the row's own write created or updated (found by the row's id, else by
\* its email), and to no record that is not the record of such a row.
C12_AttachedToOwnRecord ==
  Summarized =>
    \A p \in DOMAIN queue :
      \E tok \in {tokenize(queue[p].pr, last.now)} :
        (tok.ok /\ outcomes[p] # "failed") =>
          /\ targetOf(queue[p]) > 0 => holdsEntry(store[targetOf(queue[p])], tok)
          /\ \A i \in DOMAIN store :
               holdsEntry(store[i], tok) =>
                 \E q \in DOMAIN queue :
                   tokenize(queue[q].pr, last.now) = tok /\ targetOf(queue[q]) = i

\* the contact status is one of the eight of the enumeration
isEnumerated(status) == \E k \in DOMAIN validStatuses : validStatuses[k] = status

\* the contact status row i of the last request carries, as its path reads it
givenStatus(i) ==
  IF last.kind = "csv" THEN Get(mapRow(last.rows[i], i).data, "contactStatus")
  ELSE trim(getRaw(rowMap(last.rows[i]), aliasNorms.contactStatus))

\* the warnings the validator gives for row i of the last CSV
warningsOf(i) == validateClientData(mapRow(last.rows[i], i).data, i).warnings

\* C13: after either import the contactStatus of every stored record is one
\* of the eight enumerated values; a row whose contactStatus matches none of
\* them, letter case ignored, is still made a draft, with contactStatus
\* 'Uncategorized', and (importClients) with exactly one warning about the
\* status, which names the value of the row.
C13_ContactStatusEnumerated ==
  Answered =>
    /\ \A i \in DOMAIN store : isEnumerated(Get(store[i], "contactStatus"))
    /\ Len(last.drafts) = Len(last.rows)
    /\ \A i \in DOMAIN last.drafts :
         (givenStatus(i) # <<>> /\ findStatus(givenStatus(i)) = <<>>) =>
           /\ Get(last.drafts[i], "contactStatus") = t_Uncategorized
           /\ last.kind = "csv" =>
                /\ Cardinality({k \in DOMAIN warningsOf(i) :
                                  warningsOf(i)[k].kind = "unknown-status"}) = 1
                /\ \A k \in DOMAIN warningsOf(i) :
                     warningsOf(i)[k].kind = "unknown-status" =>
                       warningsOf(i)[k].about = givenStatus(i)

\* the operations of the last request written in one unordered call: what
\* each row's filter matched and what each row inserted
writtenAtOnce ==
  execOps(last.ops, 1, last.now, emptyBulkResult([coll |-> last.before, gen |-> last.gen]))

\* the last two requests sent the same identified rows to importClientsBatch
Resent ==
  /\ Answered /\ last.kind = "batch" /\ prev.req.kind = "batch"
  /\ prev.req.rows = last.rows
  /\ prev.resp.status = 200 /\ resp.status = 200
  /\ \A i \in DOMAIN last.drafts : Has(last.drafts[i], "_id") \/ Has(last.drafts[i], "email")

\* C14: the summary of importClientsBatch reports as `updated` the number of
\* rows whose filter matched a record that was there when the row was written
\* and as `created` the number of rows that inserted a record; a batch of N
\* identified rows sent a second time reports created = 0 and updated = N.
C14_BatchCounts ==
  /\ (Answered /\ last.kind = "batch" /\ resp.status = 200) =>
       /\ resp.updated = writtenAtOnce.matchedCount
       /\ resp.created = writtenAtOnce.upsertedCount
  /\ Resent => (resp.created = 0 /\ resp.updated = Len(last.rows))

\* the chunks of the last batch request, cut from its operations in row order
chunkCount == (Len(last.ops) + chunkSizeOf(last.batchSize) - 1) \div chunkSizeOf(last.batchSize)

chunkAt(k) ==
  SubSeq(last.ops, (k - 1) * chunkSizeOf(last.batchSize) + 1,
         Min(k * chunkSizeOf(last.batchSize), Len(last.ops)))

\* the store after chunks 1..k were each submitted once, in order, to the
\* store the request found
RECURSIVE committed(_)
committed(k) ==
  IF k = 0 THEN [coll |-> last.before, gen |-> last.gen]
  ELSE bulkWrite(committed(k - 1), chunkAt(k), last.now, skipsInvalid).st

throwsAt(k) == bulkWrite(committed(k - 1), chunkAt(k), last.now, skipsInvalid).threw

\* the first chunk whose bulk write throws, 0 when none does
firstFailed ==
  IF \A k \in 1..chunkCount : ~throwsAt(k) THEN 0
  ELSE CHOOSE k \in 1..chunkCount : throwsAt(k) /\ \A j \in 1..(k - 1) : ~throwsAt(j)

\* C16: importClientsBatch submits its chunks one at a time in row order.
\* When the bulk write of chunk k throws, the request ends with 500, the
\* store is what chunks 1..k submitted once each left (no later chunk was
\* submitted, chunk k was not submitted again), and every record the earlier
\* chunks wrote is still there.  When no chunk throws, every chunk was
\* submitted once, in order.
C16_ChunksStopAtFirstThrow ==
  (Answered /\ last.kind = "batch") =>
    /\ firstFailed = 0 => (resp.status = 200 /\ store = committed(chunkCount).coll)
    /\ firstFailed > 0 =>
         /\ resp.status = 500
         /\ store = committed(firstFailed).coll
         /\ \A i \in DOMAIN committed(firstFailed - 1).coll :
              i \in DOMAIN store /\ store[i]["_id"] = committed(firstFailed - 1).coll[i]["_id"]

\* chunk 1 wrote a record, chunk 2 threw
C16_Witness ==
  /\ Answered /\ last.kind = "batch"
  /\ chunkCount = 2 /\ firstFailed = 2
  /\ Len(committed(1).coll) > Len(last.before)
  /\ resp.status = 500

\* chunk 1 threw and chunk 2, which would have written a record, was not submitted
C16_LaterChunkWithheld ==
  /\ Answered /\ last.kind = "batch"
  /\ chunkCount = 2 /\ firstFailed = 1
  /\ Len(committed(2).coll) > Len(committed(1).coll)
  /\ store = committed(1).coll

\* C17: while importClients attaches payment methods, at most `workers` tasks
\* are in progress, no two workers hold the same queue item, an item in
\* progress was taken from the queue before the cursor and has no outcome
\* yet, an item past the cursor is untouched, the outcome of an item is
\* written once, and when the summary is sent the cursor has passed every
\* item and every task that could be attempted has its outcome.
C17_EachTaskTakenOnce ==
  /\ [](phase = "pool" =>
          /\ Cardinality(busy) <= Min(workers, Len(wk))
          /\ \A w1 \in busy : \A w2 \in busy : w1 # w2 => wk[w1].pos # wk[w2].pos
          /\ \A w \in busy :
               wk[w].pos \in 1..Min(qi, Len(queue)) /\ outcomes[wk[w].pos] = "none"
          /\ \A p \in DOMAIN queue : p > qi => outcomes[p] = "none")
  /\ [](Summarized =>
          /\ qi >= Len(queue)
          /\ \A p \in DOMAIN queue : attemptable(queue[p]) => outcomes[p] # "none")
  /\ [][phase = "pool" =>
          \A p \in DOMAIN outcomes : outcomes[p] # "none" => outcomes'[p] = outcomes[p]]_vars

\* a queue longer than the pool was worked off: every worker took an item,
\* and the third item was taken by a worker that had finished another
C17_Witness ==
  /\ Summarized
  /\ Len(queue) = SmallQueue /\ Len(wk) = SmallPool
  /\ \A p \in DOMAIN queue : outcomes[p] # "none"
  /\ \E p \in DOMAIN queue : outcomes[p] = "saved"

(***************************************************************************)
(* importClients on rows whose card columns are well and badly formed.     *)
(***************************************************************************)
CardRows == {rowAda, rowClamped, rowBadCode, rowEmailCard, rowShortCard}

NextCards == (\E rows \in RowSeqs(CardRows) : ImportClients(rows)) \/ Pool

SpecCards == Init /\ [][NextCards]_vars

\* what the row of a payment task says: the digits of its card number, the
\* month and the year of its expiry (NoDate where the expiry has none of the
\* forms M/YY, MM/YY, M-YY, MM-YYYY)
digitsGiven(item) == SelectSeq(item.pr.ccNumber, IsDigit)

expiryGiven(item) == trim(item.pr.ccExp)

hasExpiryForm(exp) ==
  \E m \in 1..2 : \E y \in {2, 4} :
    /\ Len(exp) = m + 1 + y
    /\ exp[m + 1] \in {"/", "-"}
    /\ \A i \in (1..m) \cup ((m + 2)..(m + 1 + y)) : IsDigit(exp[i])

monthGiven(exp) ==
  IF exp[2] \in {"/", "-"} THEN parseDigits(SubSeq(exp, 1, 1)) ELSE parseDigits(SubSeq(exp, 1, 2))

yearTextGiven(exp) ==
  IF exp[2] \in {"/", "-"} THEN SubSeq(exp, 3, Len(exp)) ELSE SubSeq(exp, 4, Len(exp))

yearGiven(exp) ==
  IF Len(yearTextGiven(exp)) = 2 THEN 2000 + parseDigits(yearTextGiven(exp))
  ELSE parseDigits(yearTextGiven(exp))

\* the record holds an entry with these derived values
holdsCard(doc, last4, brand, month, year) ==
  \E k \in DOMAIN paymentMethodsOf(doc) :
    /\ paymentMethodsOf(doc)[k].last4 = last4
    /\ paymentMethodsOf(doc)[k].brand = brand
    /\ paymentMethodsOf(doc)[k].expMonth = month
    /\ paymentMethodsOf(doc)[k].expYear = year

codeGiven(item) == trim(item.pr.ccCvv)

entryFields ==
  {"id", "brand", "last4", "expMonth", "expYear", "nameOnCard", "billingZip", "isDefault"}

\* C19: when the summary is sent, a task whose security code is present but
\* is not 3 or 4 digits has attached no payment method, and no entry of any
\* record has a field for the security code.
C19_SecurityCodeShape ==
  Summarized =>
    /\ \A p \in DOMAIN queue :
         (codeGiven(queue[p]) # <<>> /\ ~isCvv(codeGiven(queue[p]))) => outcomes[p] # "saved"
    /\ \A i \in DOMAIN store : \A k \in DOMAIN paymentMethodsOf(store[i]) :
         DOMAIN paymentMethodsOf(store[i])[k] = entryFields

(***************************************************************************)
(* Both imports on rows with and without a name.                           *)
(***************************************************************************)
NameRows == {rowAda, rowEmailOnly, rowPhone}

NextNames ==
  \/ \E rows \in RowSeqs(NameRows) : ImportClients(rows)
  \/ Pool
  \/ \E rows \in RowSeqs({jsonAda, jsonEmailOnly}) : \E batchSize \in {0, MinChunk} :
       ImportClientsBatch(rows, batchSize)

SpecNames == Init /\ [][NextNames]_vars

\* the value row i of the last request carries for a field, as its path reads it
givenField(i, f) ==
  IF last.kind = "csv" THEN trim(Get(mapRow(last.rows[i], i).data, f))
  ELSE sanitizeFields(rowMap(last.rows[i]))[f]

givenFirstAndLast(i) ==
  IF givenField(i, "firstName") # <<>> /\ givenField(i, "lastName") # <<>>
  THEN givenField(i, "firstName") \o <<" ">> \o givenField(i, "lastName")
  ELSE givenField(i, "firstName") \o givenField(i, "lastName")

\* the first non-blank of fullName, company, first + last, email, phone
expectedName(i) ==
  IF givenField(i, "fullName") # <<>> THEN givenField(i, "fullName")
  ELSE IF givenField(i, "company") # <<>> THEN givenField(i, "company")
  ELSE IF givenFirstAndLast(i) # <<>> THEN givenFirstAndLast(i)
  ELSE IF givenField(i, "email") # <<>> THEN givenField(i, "email")
  ELSE IF givenField(i, "phone") # <<>> THEN givenField(i, "phone")
  ELSE t_Unnamed_Client

\* row i is the only row of the last request written under its filter
writtenAlone(i) ==
  /\ i \in DOMAIN last.ops
  /\ last.ops[i].kind = "updateOne"
  /\ isWritten(last.ops[i])
  /\ \A j \in DOMAIN last.ops : j # i => last.ops[j].filter # last.ops[i].filter

\* C20: after either import, the record written for a row whose name column
\* is blank has as its name the first non-blank of the row's fullName,
\* company, firstName + ' ' + lastName, email and phone, and 'Unnamed Client'
\* when all are blank.
C20_NameFallbackOrder ==
  (Answered /\ Len(last.ops) = Len(last.rows)) =>
    \A i \in DOMAIN last.rows :
      (givenField(i, "name") = <<>> /\ writtenAlone(i)) =>
        store[findOneIndex(store, last.ops[i].filter[1], last.ops[i].filter[2])]["name"]
          = expectedName(i)

(***************************************************************************)
(* Both imports with their options.                                        *)
(***************************************************************************)
\* the rows of the CSV requests: with and without an identity, and with fields
\* the validator finds fault with
OptionRows == {rowAda, rowAnonymous, rowBadFields, rowBadEmail}

NextOptions ==
  \/ \E rows \in RowSeqs(OptionRows) : \E skipInvalid \in BOOLEAN :
       ImportClientsWith(rows, skipInvalid)
  \/ Pool
  \/ \E rows \in RowSeqs(JsonRows) : \E skipValidation \in BOOLEAN :
       ImportClientsBatchWith(rows, 0, skipValidation)

SpecOptions == Init /\ [][NextOptions]_vars

\* what the validator returns for row i of the last CSV request
validated(i) == validateClientData(mapRow(last.rows[i], i).data, i)

invalidRows == {i \in DOMAIN last.rows : ~validated(i).isValid}

\* the record the operation of a valid row writes is in the store
rowIsWritten(i) ==
  \E op \in {csvOp(validated(i).data, last.now)} :
    IF op.kind = "updateOne" THEN isWritten(op)
    ELSE \E k \in DOMAIN store :
           /\ k \notin DOMAIN last.before
           /\ Get(store[k], "name") = Get(validated(i).data, "name")

\* C21: importClients with skipInvalid = false and a row the validator marks
\* invalid ends with 400 and leaves the store as it was; with skipInvalid =
\* true it ends with a 200 summary whose skipped is the number of invalid
\* rows, and every valid row is written.
C21_SkipInvalid ==
  (Answered /\ last.kind = "csv") =>
    /\ (~last.skipInvalid /\ invalidRows # {}) => (resp.status = 400 /\ store = last.before)
    /\ last.skipInvalid =>
         /\ resp.status = 200
         /\ resp.skipped = Cardinality(invalidRows)
         /\ \A i \in DOMAIN last.rows : i \notin invalidRows => rowIsWritten(i)

\* the kinds of warning the validator gave row i of the last CSV request
warningKinds(i) == {validated(i).warnings[k].kind : k \in DOMAIN validated(i).warnings}

\* the value the validator found fault with is left out of the row's data, or
\* replaced by the default
offendingOmitted(i) ==
  /\ "invalid-email" \in warningKinds(i) => "email" \notin DOMAIN validated(i).data
  /\ "invalid-phone" \in warningKinds(i) => "phone" \notin DOMAIN validated(i).data
  /\ "invalid-createdAt" \in warningKinds(i) => "createdAt" \notin DOMAIN validated(i).data
  /\ "unknown-status" \in warningKinds(i) => validated(i).data["contactStatus"] = t_Uncategorized

\* C22: a CSV row with a field-level problem (an invalid email or phone number,
\* an unparsable date, an unknown status, a missing name) only gets warnings:
\* the validator returns isValid = true with no errors, the row is written,
\* and the offending value is omitted or replaced by the default.
C22_FieldProblemsOnlyWarn ==
  (Answered /\ last.kind = "csv") =>
    \A i \in DOMAIN last.rows :
      warningKinds(i) # {} =>
        /\ validated(i).isValid
        /\ validated(i).errors = <<>>
        /\ offendingOmitted(i)
        /\ rowIsWritten(i)

\* C23: importClientsBatch validates no row when options.skipValidation is
\* absent or true, so that the draft carries the contact status as the row
\* gives it; when it is false every row goes through the row validator, so
\* that the draft has an enumerated contact status and no invalid email.
C23_BatchValidation ==
  (Answered /\ last.kind = "batch") =>
    \A i \in DOMAIN last.drafts :
      IF last.skipValidation
      THEN Get(last.drafts[i], "contactStatus") = givenStatus(i)
      ELSE /\ isEnumerated(Get(last.drafts[i], "contactStatus"))
           /\ Has(last.drafts[i], "email") => isValidEmail(last.drafts[i]["email"])

\* C24: in every 200 summary of either import, successful = created + updated
\* and totalProcessed = successful + failed + skipped.
C24_SummaryAddsUp ==
  (Answered /\ resp.status = 200) =>
    /\ resp.successful = resp.created + resp.updated
    /\ resp.totalProcessed = resp.successful + resp.failed + resp.skipped

\* the ids of the records the bulk write of the last request created
createdIds == {store[k]["_id"] : k \in DOMAIN store \ DOMAIN last.before}

\* C25: importClients logs a 'created' activity for exactly the clients its
\* bulk write created: one for each of them, and none for a row that only
\* matched a record, also when the same request created other records.
C25_CreatedActivities ==
  (Answered /\ last.kind = "csv") =>
    /\ {last.activityDocs[k].clientId : k \in DOMAIN last.activityDocs} = createdIds
    /\ Len(last.activityDocs) = Cardinality(createdIds)

\* the value row i of the last request supplies for field f
suppliedValue(i, f) ==
  IF last.kind = "csv" THEN Get(mapRow(last.rows[i], i).data, f)
  ELSE Get(last.drafts[i], f)

\* operation i of the last request addresses the record that was stored at k
addresses(i, k) ==
  /\ last.ops[i].kind = "updateOne"
  /\ Get(last.before[k], last.ops[i].filter[1]) = last.ops[i].filter[2]

\* the fields of a stored record an import row can name
importedFields(doc) == DOMAIN doc \ {"createdAt", "updatedAt", "__v", "paymentMethods"}

\* C26: an import row that matches an existing record changes only the fields
\* for which the row supplies a non-empty value; the fields the row leaves
\* absent or blank keep their stored values, in both import paths.
C26_BlankFieldsKeepStored ==
  (Answered /\ resp.status = 200) =>
    \A k \in DOMAIN last.before :
      \A f \in importedFields(last.before[k]) :
        Get(store[k], f) # last.before[k][f] =>
          \E i \in DOMAIN last.ops : addresses(i, k) /\ suppliedValue(i, f) # <<>>

\* the operation names a non-empty id or leaves the id alone: an update does
\* not set _id to '', an insert carries an _id
keepsId(op) ==
  IF op.kind = "updateOne" THEN ~("_id" \in DOMAIN op.set /\ op.set["_id"] = <<>>)
  ELSE Has(op.document, "_id")

\* C27: every write operation of either import targets or creates a record
\* with a non-empty id: no operation sets the id to '', an insert carries an
\* id, every stored record has a non-empty id, and rows with distinct emails
\* end up as distinct records.
C27_NonEmptyIds ==
  Answered =>
    /\ \A i \in DOMAIN last.ops : keepsId(last.ops[i])
    /\ \A k \in DOMAIN store : Has(store[k], "_id")
    /\ resp.status = 200 =>
         \A i, j \in DOMAIN last.drafts :
           (/\ Has(last.drafts[i], "email") /\ Has(last.drafts[j], "email")
            /\ last.drafts[i]["email"] # last.drafts[j]["email"]) =>
             \E k, l \in DOMAIN store :
               /\ k # l
               /\ Get(store[k], "email") = last.drafts[i]["email"]
               /\ Get(store[l], "email") = last.drafts[j]["email"]

\* the request of this step is a createClient or an updateClient that ends
\* with 400: the card number, the expiry or the security code was refused
cardRefused ==
  /\ clock' = clock + 1
  /\ resp'.kind \in {"createClient", "updateClient"}
  /\ resp'.status = 400

\* C28: a createClient or an updateClient that ends with 400 because of an
\* invalid card number, expiry or security code leaves the store exactly as
\* it was before the request.
C28_RefusedCardLeavesStore == [][cardRefused => store' = store]_vars

\* C29: every record with a non-empty statusHistory has, after any sequence
\* of status changes, updates and imports, the contactStatus that its last
\* statusHistory entry names.
C29_StatusIsLastHistoryEntry ==
  \A i \in DOMAIN store :
    statusHistoryOf(store[i]) # <<>> =>
      Get(store[i], "contactStatus")
        = statusHistoryOf(store[i])[Len(statusHistoryOf(store[i]))].status

\* C30: importing again, with importClients, the CSV that was imported just
\* before, with the same card columns for the same clients, leaves the number
\* of payment methods of every record as it was.
C30_ReimportKeepsCards ==
  (RepeatedImport /\ resp.status = 200 /\ prev.resp.status = 200) =>
    \A k \in DOMAIN last.before :
      Len(paymentMethodsOf(store[k])) = Len(paymentMethodsOf(last.before[k]))
====
